---------------------------- MODULE Spec2Model ----------------------------
(***************************************************************************)
(* A model of fastapi-fsp: the filter engine (value coercion, operator     *)
(* strategies and their registry, apply_filters), the OR-group             *)
(* composition, the sort engine, the pagination engine with its response   *)
(* builder, and the parsers of the query string.                           *)
(*                                                                         *)
(* Python strings are sequences of one-character strings, so that split,   *)
(* strip, int() and float() are computed, not assumed.  Python values are  *)
(* tagged records [t, v]; an exception leaving a function is the value     *)
(* [t |-> "raise", v |-> <exception class>].                               *)
(***************************************************************************)
EXTENDS Integers, Sequences, FiniteSets, TLC

VARIABLES
    pc,            \* position of the call sequence being explored
    raw,           \* SpecValue: the raw string handed to a helper or strategy
    column,        \* SpecValue: the column handle handed to it
    dt_parse,      \* what the datetime parsers make of the string handed to them
    coerced,       \* SpecValue: result of _coerce_value
    pieces,        \* SpecValue: result of _split_values
    condition,     \* SpecStrategy: result of build_filter_condition
    FILTER_STRATEGIES,  \* the module-level strategy registry
    registrations, \* the calls of register_strategy made so far
    peer,          \* a second request served at the same time: its position and engine
    database,      \* the rows of the table and the statements the session has executed
    heap,          \* the column objects created on the fly that are alive, by address
    builder,       \* FilterBuilder: the values last given to it and its _filters
    strict_mode,   \* FilterEngine.strict_mode
    sort_strict_mode,  \* SortEngine.strict_mode
    _type_cache,   \* FilterEngine._type_cache: column -> declared Python type
    filters,       \* the AND-filters of the request
    or_filters,    \* the OR-filter groups of the request
    base,          \* the caller's base query
    query,         \* the query as composed so far
    raised,        \* the exception that ended the call sequence, if any
    sorting,       \* the sort of the request
    request,       \* the request: its URL
    parse_outcome, \* what a parser of the query string returned or raised
    pagination,    \* the page and page size of the request
    use_window_function,  \* PaginationEngine.use_window_function
    session,       \* the dialect of the database session's bind
    result,        \* what paginate_with_count returned
    response       \* the response built

valueVars == <<raw, column, dt_parse, coerced, pieces, condition>>

filterVars == <<strict_mode, sort_strict_mode, _type_cache, filters, or_filters, base, query, raised>>

pageVars == <<request, parse_outcome, sorting, pagination, use_window_function, session, result, response>>

registryVars == <<FILTER_STRATEGIES, registrations>>

vars == <<pc, valueVars, registryVars, builder, heap, peer, database, filterVars, pageVars>>

---------------------------------------------------------------------------
(* Bounds of the exploration.                                              *)

\* longest raw string enumerated for the helpers and strategies
MaxLen == 3

\* characters the raw strings enumerated for _coerce_value and _split_values
\* are built from
RawChars == {"1", ",", " ", ".", "i", "n", "f", "T"}

\* characters the raw values enumerated for the operator strategies are
\* built from
StrategyChars == {"1", ",", " "}

\* longest list of AND-filters of a request
MaxFilters == 2

\* most OR-filter groups of a request
MaxGroups == 1

\* largest page number of a request
MaxPage == 3

\* largest page size of a request
MaxPerPage == 2

\* largest total_items handed to build_response
MaxItems == 5

\* most calls of register_strategy
MaxRegistrations == 2

\* most rows of the table while other sessions insert
MaxRows == 4

\* longest list of values given to FieldBuilder.in_ and not_in
MaxValues == 2

---------------------------------------------------------------------------
(* Python strings.                                                         *)

None == "None"

Whitespace == {" ", "\t", "\n"}

Digits == <<"0", "1", "2", "3", "4", "5", "6", "7", "8", "9">>

UpperCase == <<"A", "B", "C", "D", "E", "F", "G", "H", "I", "J", "K", "L", "M",
               "N", "O", "P", "Q", "R", "S", "T", "U", "V", "W", "X", "Y", "Z">>

LowerCase == <<"a", "b", "c", "d", "e", "f", "g", "h", "i", "j", "k", "l", "m",
               "n", "o", "p", "q", "r", "s", "t", "u", "v", "w", "x", "y", "z">>

IsDigit(c) == \E i \in 1..Len(Digits) : Digits[i] = c

DigitValue(c) == (CHOOSE i \in 1..Len(Digits) : Digits[i] = c) - 1

AllDigits(s) == \A i \in 1..Len(s) : IsDigit(s[i])

RECURSIVE ToNat(_)
ToNat(ds) ==
    IF ds = <<>> THEN 0
    ELSE 10 * ToNat(SubSeq(ds, 1, Len(ds) - 1)) + DigitValue(ds[Len(ds)])

\* str.lower() on one character
LowerChar(c) ==
    IF \E i \in 1..Len(UpperCase) : UpperCase[i] = c
    THEN LowerCase[CHOOSE i \in 1..Len(UpperCase) : UpperCase[i] = c]
    ELSE c

\* str.lower()
Lower(s) == [i \in 1..Len(s) |-> LowerChar(s[i])]

RECURSIVE LStrip(_)
LStrip(s) ==
    IF s # <<>> /\ s[1] \in Whitespace THEN LStrip(Tail(s)) ELSE s

RECURSIVE RStrip(_)
RStrip(s) ==
    IF s # <<>> /\ s[Len(s)] \in Whitespace
    THEN RStrip(SubSeq(s, 1, Len(s) - 1))
    ELSE s

\* str.strip()
Strip(s) == RStrip(LStrip(s))

\* index of the first occurrence of character c in s, 0 when there is none
FirstIndex(s, c) ==
    IF \E i \in 1..Len(s) : s[i] = c
    THEN CHOOSE i \in 1..Len(s) : s[i] = c /\ \A j \in 1..(i - 1) : s[j] # c
    ELSE 0

\* str.split(sep), given the index i of the first separator
RECURSIVE SplitAt(_, _, _)
SplitAt(s, sep, i) ==
    IF i = 0 THEN <<s>>
    ELSE <<SubSeq(s, 1, i - 1)>>
             \o SplitAt(SubSeq(s, i + 1, Len(s)), sep,
                        FirstIndex(SubSeq(s, i + 1, Len(s)), sep))

\* str.split(sep) for a one-character separator: never drops an empty piece
Split(s, sep) == SplitAt(s, sep, FirstIndex(s, sep))

\* str + str
Concat(a, b) == a \o b

---------------------------------------------------------------------------
(* Python values.                                                          *)

Str(s)      == [t |-> "str", v |-> s]
IntV(n)     == [t |-> "int", v |-> n]
BoolV(b)    == [t |-> "bool", v |-> b]
FloatV(f)   == [t |-> "float", v |-> f]
DateV(s)    == [t |-> "datetime", v |-> s]
EnumV(s)    == [t |-> "enum", v |-> s]
Raise(e)    == [t |-> "raise", v |-> e]
NotCalled   == [t |-> "none", v |-> <<>>]

\* a numeral starts with a sign
HasSign(t0) == t0 # <<>> /\ t0[1] \in {"+", "-"}

IsNegative(t0) == HasSign(t0) /\ t0[1] = "-"

\* the numeral without its sign
Unsigned(t0) == IF HasSign(t0) THEN Tail(t0) ELSE t0

Signed(neg, n) == IF neg THEN 0 - n ELSE n

IntOfDigits(neg, body) ==
    IF body # <<>> /\ AllDigits(body)
    THEN [ok |-> TRUE, v |-> Signed(neg, ToNat(body))]
    ELSE [ok |-> FALSE, v |-> 0]

\* int(s): optional sign and decimal digits, surrounding whitespace ignored
ParseInt(s) == IntOfDigits(IsNegative(Strip(s)), Unsigned(Strip(s)))

\* float(s) raises ValueError
NotAFloat == [ok |-> FALSE, kind |-> "error", neg |-> FALSE, ip |-> 0, fp |-> <<>>]

\* a decimal number from the digits before and after its point
FloatOfParts(neg, ip, fp) ==
    IF AllDigits(ip) /\ AllDigits(fp) /\ Len(ip) + Len(fp) >= 1
    THEN [ok |-> TRUE, kind |-> "finite", neg |-> neg, ip |-> ToNat(ip), fp |-> fp]
    ELSE NotAFloat

FloatOfDecimal(neg, body, dot) ==
    FloatOfParts(neg,
                 IF dot = 0 THEN body ELSE SubSeq(body, 1, dot - 1),
                 IF dot = 0 THEN <<>> ELSE SubSeq(body, dot + 1, Len(body)))

FloatOfBody(neg, body) ==
    IF body \in {<<"i", "n", "f">>, <<"i", "n", "f", "i", "n", "i", "t", "y">>}
    THEN [ok |-> TRUE, kind |-> "inf", neg |-> neg, ip |-> 0, fp |-> <<>>]
    ELSE IF body = <<"n", "a", "n">>
    THEN [ok |-> TRUE, kind |-> "nan", neg |-> FALSE, ip |-> 0, fp |-> <<>>]
    ELSE FloatOfDecimal(neg, body, FirstIndex(body, "."))

\* float(s): sign, then inf / infinity / nan or a decimal number; the result
\* keeps the sign, the integral part and the fractional digits
ParseFloat(s) == FloatOfBody(IsNegative(Strip(s)), Lower(Unsigned(Strip(s))))

\* int(f): truncation toward zero; OverflowError on an infinity, ValueError
\* on a NaN
Truncate(f) ==
    IF ~f.ok THEN Raise("ValueError")
    ELSE IF f.kind = "inf" THEN Raise("OverflowError")
    ELSE IF f.kind = "nan" THEN Raise("ValueError")
    ELSE IntV(Signed(f.neg, f.ip))

\* int(float(s)): ValueError too when float(s) raises it
IntOfFloat(s) == Truncate(ParseFloat(s))

---------------------------------------------------------------------------
(* Columns.                                                                *)

\* values of the enumerated column type
EnumValues == {<<"i", "n">>, <<"f", "i", "n">>}

\* storage types a column may have; "null" has no python_type
ColumnTypes == {"str", "int", "bool", "datetime", "float", "enum", "null"}

Column(name, type, ilike) == [name |-> name, type |-> type, has_ilike |-> ilike]

\* getattr(column.type, "python_type", None), with the failure of a type that
\* implements none turned into None
python_type(col) == IF col.type = "null" THEN None ELSE col.type

\* hasattr(col, "ilike")
_ilike_supported(col) == col.has_ilike


---------------------------------------------------------------------------
(* Value coercion and splitting (filters.py).                              *)

\* what datetime.fromisoformat followed by dateutil's parse make of a string:
\*   "datetime"     one of the two returns a datetime
\*   "ParserError"  both raise ValueError (dateutil's ParserError is one)
\* No string of the enumerated lengths is an ISO date, and none holds a
\* numeral long enough for dateutil's OverflowError.
DatetimeOutcomes == {"datetime", "ParserError"}

\* a blank string holds no date, whatever the parser
ParsesAsDatetime(s) == dt_parse = "datetime" /\ Strip(s) # <<>>

TrueWords == {<<"t", "r", "u", "e">>, <<"1">>, <<"t">>, <<"y", "e", "s">>, <<"y">>}

FalseWords == {<<"f", "a", "l", "s", "e">>, <<"0">>, <<"f">>, <<"n", "o">>, <<"n">>}

FloatOrText(s, f) == IF f.ok THEN FloatV(f) ELSE Str(s)

\* the final "try: return pytype(raw) except Exception: return raw"
Construct(pytype, s) ==
    CASE pytype = "bool"  -> BoolV(s # <<>>)
      [] pytype = "float" -> FloatOrText(s, ParseFloat(s))
      [] pytype = "enum"  -> IF s \in EnumValues THEN EnumV(s) ELSE Str(s)
      [] OTHER            -> Str(s)

\* the bool branch: a known word, else on to the final constructor call
BoolOfWord(s, val) ==
    IF val \in TrueWords THEN BoolV(TRUE)
    ELSE IF val \in FalseWords THEN BoolV(FALSE)
    ELSE Construct("bool", s)

\* the int branch: int(raw), else int(float(raw)), whose ValueError alone is
\* caught
IntOrText(s, parsed, truncated) ==
    IF parsed.ok THEN IntV(parsed.v)
    ELSE IF truncated = Raise("ValueError") THEN Str(s)
    ELSE truncated

\* _coerce_value once pytype is settled
CoerceTo(pt, s) ==
    IF pt = None \/ pt = "str" THEN Str(s)
    ELSE IF pt = "bool" THEN BoolOfWord(s, Lower(Strip(s)))
    ELSE IF pt = "int" THEN IntOrText(s, ParseInt(s), IntOfFloat(s))
    ELSE IF pt = "datetime" THEN
        IF ParsesAsDatetime(s) THEN DateV(s) ELSE Str(s)
    ELSE Construct(pt, s)

_coerce_value(col, s, pytype) ==
    CoerceTo(IF pytype = None THEN python_type(col) ELSE pytype, s)

StripEach(parts) == [i \in 1..Len(parts) |-> Strip(parts[i])]

\* a split that discards the pieces left empty
SplitNonEmpty(s) == SelectSeq(StripEach(Split(s, ",")), LAMBDA piece : piece # <<>>)

\* [item.strip() for item in raw.split(",")]
_split_values(s) == StripEach(Split(s, ","))

---------------------------------------------------------------------------
(* Operator strategies (filters.py).  A predicate is the record            *)
(*   [k, col, cast, lowered, negated, args]:                               *)
(* k the SQL operator, col the column it is applied to, cast whether the   *)
(* column is wrapped in CAST(col AS text), lowered whether it is wrapped   *)
(* in lower(), negated whether the whole is wrapped in NOT, args the       *)
(* operands.  k = "None" is the strategy's "no predicate"; k = "raise" is  *)
(* an exception leaving the strategy, kept in args.                        *)

FilterOperator ==
    {"eq", "ne", "gt", "gte", "lt", "lte", "like", "not_like", "ilike",
     "not_ilike", "in", "not_in", "between", "is_null", "is_not_null",
     "starts_with", "ends_with", "contains"}

Filter(field, operator, value) ==
    [field |-> field, operator |-> operator, value |-> value]

NoPredicate ==
    [k |-> "None", col |-> None, cast |-> FALSE, lowered |-> FALSE,
     negated |-> FALSE, args |-> <<>>]

\* a column operator applied to already evaluated operands: an exception
\* raised while an operand was evaluated leaves the strategy instead
Predicate(k, col, lowered, negated, args) ==
    IF \E i \in 1..Len(args) : args[i].t = "raise"
    THEN [k |-> "raise", col |-> None, cast |-> FALSE, lowered |-> FALSE,
          negated |-> FALSE,
          args |-> <<args[CHOOSE i \in 1..Len(args) :
                            /\ args[i].t = "raise"
                            /\ \A j \in 1..(i - 1) : args[j].t # "raise"]>>]
    ELSE [k |-> k, col |-> col, cast |-> FALSE, lowered |-> lowered,
          negated |-> negated, args |-> args]

_strategy_eq(col, s, pytype)  == Predicate("=", col, FALSE, FALSE, <<_coerce_value(col, s, pytype)>>)
_strategy_ne(col, s, pytype)  == Predicate("!=", col, FALSE, FALSE, <<_coerce_value(col, s, pytype)>>)
_strategy_gt(col, s, pytype)  == Predicate(">", col, FALSE, FALSE, <<_coerce_value(col, s, pytype)>>)
_strategy_gte(col, s, pytype) == Predicate(">=", col, FALSE, FALSE, <<_coerce_value(col, s, pytype)>>)
_strategy_lt(col, s, pytype)  == Predicate("<", col, FALSE, FALSE, <<_coerce_value(col, s, pytype)>>)
_strategy_lte(col, s, pytype) == Predicate("<=", col, FALSE, FALSE, <<_coerce_value(col, s, pytype)>>)

_strategy_like(col, s, pytype) == Predicate("LIKE", col, FALSE, FALSE, <<Str(s)>>)

_strategy_not_like(col, s, pytype) == Predicate("LIKE", col, FALSE, TRUE, <<Str(s)>>)

_strategy_ilike(col, s, pytype) ==
    IF _ilike_supported(col)
    THEN Predicate("ILIKE", col, FALSE, FALSE, <<Str(s)>>)
    ELSE Predicate("LIKE", col, TRUE, FALSE, <<Str(Lower(s))>>)

_strategy_not_ilike(col, s, pytype) ==
    IF _ilike_supported(col)
    THEN Predicate("ILIKE", col, FALSE, TRUE, <<Str(s)>>)
    ELSE Predicate("LIKE", col, TRUE, TRUE, <<Str(Lower(s))>>)

CoerceAll(col, vals, pytype) ==
    [i \in 1..Len(vals) |-> _coerce_value(col, vals[i], pytype)]

_strategy_in(col, s, pytype) ==
    Predicate("IN", col, FALSE, FALSE, CoerceAll(col, _split_values(s), pytype))

_strategy_not_in(col, s, pytype) ==
    Predicate("IN", col, FALSE, TRUE, CoerceAll(col, _split_values(s), pytype))

\* the tail of _strategy_between, given the split values
BetweenOf(col, vals, pytype) ==
    IF Len(vals) = 2
    THEN Predicate("BETWEEN", col, FALSE, FALSE,
                   <<_coerce_value(col, vals[1], pytype),
                     _coerce_value(col, vals[2], pytype)>>)
    ELSE NoPredicate

_strategy_between(col, s, pytype) == BetweenOf(col, _split_values(s), pytype)

_strategy_is_null(col, s, pytype) == Predicate("IS NULL", col, FALSE, FALSE, <<>>)

_strategy_is_not_null(col, s, pytype) == Predicate("IS NOT NULL", col, FALSE, FALSE, <<>>)

\* the shared tail of starts_with, ends_with and contains
PatternMatch(col, pattern) ==
    IF _ilike_supported(col)
    THEN Predicate("ILIKE", col, FALSE, FALSE, <<Str(pattern)>>)
    ELSE Predicate("LIKE", col, TRUE, FALSE, <<Str(Lower(pattern))>>)

_strategy_starts_with(col, s, pytype) == PatternMatch(col, Concat(s, <<"%">>))

_strategy_ends_with(col, s, pytype) == PatternMatch(col, Concat(<<"%">>, s))

_strategy_contains(col, s, pytype) == PatternMatch(col, Concat(<<"%">>, Concat(s, <<"%">>)))

\* the registry as the module defines it: operator tag -> strategy
DefaultStrategies == [op \in FilterOperator |-> "_strategy_" \o op]

\* a strategy of a caller: column == raw, without coercion
custom_eq(col, s, pytype) == Predicate("=", col, FALSE, FALSE, <<Str(s)>>)

\* calling the strategy function registered under a name
CallStrategy(name, col, s, pytype) ==
    CASE name = "_strategy_eq"          -> _strategy_eq(col, s, pytype)
      [] name = "_strategy_ne"          -> _strategy_ne(col, s, pytype)
      [] name = "_strategy_gt"          -> _strategy_gt(col, s, pytype)
      [] name = "_strategy_gte"         -> _strategy_gte(col, s, pytype)
      [] name = "_strategy_lt"          -> _strategy_lt(col, s, pytype)
      [] name = "_strategy_lte"         -> _strategy_lte(col, s, pytype)
      [] name = "_strategy_like"        -> _strategy_like(col, s, pytype)
      [] name = "_strategy_not_like"    -> _strategy_not_like(col, s, pytype)
      [] name = "_strategy_ilike"       -> _strategy_ilike(col, s, pytype)
      [] name = "_strategy_not_ilike"   -> _strategy_not_ilike(col, s, pytype)
      [] name = "_strategy_in"          -> _strategy_in(col, s, pytype)
      [] name = "_strategy_not_in"      -> _strategy_not_in(col, s, pytype)
      [] name = "_strategy_between"     -> _strategy_between(col, s, pytype)
      [] name = "_strategy_is_null"     -> _strategy_is_null(col, s, pytype)
      [] name = "_strategy_is_not_null" -> _strategy_is_not_null(col, s, pytype)
      [] name = "_strategy_starts_with" -> _strategy_starts_with(col, s, pytype)
      [] name = "_strategy_ends_with"   -> _strategy_ends_with(col, s, pytype)
      [] name = "_strategy_contains"    -> _strategy_contains(col, s, pytype)
      [] name = "custom_eq"             -> custom_eq(col, s, pytype)

\* a registration that makes every operator dispatch to the strategy
RegisterForAll(registry, operator, strategy) == [op \in DOMAIN registry |-> strategy]

\* a registration that forgets the other operators
RegisterAlone(registry, operator, strategy) == [op \in {operator} |-> strategy]

\* FilterEngine.register_strategy: FILTER_STRATEGIES[operator] = strategy
register_strategy(registry, operator, strategy) ==
    [op \in DOMAIN registry \cup {operator} |->
        IF op = operator THEN strategy ELSE registry[op]]

\* FilterEngine.build_filter_condition
build_filter_condition(col, f, pytype) ==
    IF f.operator \notin DOMAIN FILTER_STRATEGIES THEN NoPredicate
    ELSE CallStrategy(FILTER_STRATEGIES[f.operator], col, f.value, pytype)


---------------------------------------------------------------------------
(* Queries, the mapped entity and the rows behind it.                      *)

\* every field name of the model, in the order Python's sorted() gives
FieldNames == <<"active", "age", "display", "full_name", "id", "name", "nosuch">>

\* sorted(names): the names of a set in lexicographic order
Sorted(names) == SelectSeq(FieldNames, LAMBDA n : n \in names)

NoColumn == Column(None, "null", FALSE)

\* query.selected_columns of select(Hero): the stored columns, in the order
\* the model class declares them
HeroColumns ==
    <<Column("id", "int", TRUE), Column("name", "str", TRUE),
      Column("age", "int", TRUE), Column("active", "bool", TRUE)>>

\* query.selected_columns
selected_columns(q) == HeroColumns

\* columns_map.keys()
Keys(columns_map) == {columns_map[i].name : i \in 1..Len(columns_map)}

\* columns_map.get(field)
MapGet(columns_map, field) ==
    IF field \in Keys(columns_map)
    THEN columns_map[CHOOSE i \in 1..Len(columns_map) : columns_map[i].name = field]
    ELSE NoColumn

\* getattr(Hero, field, None): a mapped column, a hybrid property carrying a
\* SQL expression, a plain Python property, a descriptor whose access raises,
\* or nothing
HeroAttribute(field) ==
    CASE field \in Keys(HeroColumns) -> [kind |-> "column", expr |-> MapGet(HeroColumns, field)]
      [] field = "full_name"         -> [kind |-> "hybrid", expr |-> Column("full_name", "str", TRUE)]
      [] field = "display"           -> [kind |-> "property", expr |-> NoColumn]
      [] field = "broken"            -> [kind |-> "raises", expr |-> NoColumn]
      [] OTHER                       -> [kind |-> "absent", expr |-> NoColumn]

\* a Select: the entity it selects from (None for a select of a plain table),
\* its WHERE conditions, all ANDed, and its ORDER BY
SelectOf(entity) == [entity |-> entity, where |-> <<>>, order_by |-> <<>>]

\* a where() that attaches nothing
WhereNothing(q, conditions) == q

\* query.where(*conditions)
Where(q, conditions) == [q EXCEPT !.where = @ \o conditions]

\* FilterEngine.get_entity_attribute
get_entity_attribute(q, field) ==
    IF q.entity = None THEN NoColumn
    ELSE LET attr == HeroAttribute(field) IN
         IF attr.kind \in {"column", "hybrid"} THEN attr.expr ELSE NoColumn

\* the rows of the table: no NULLs
HeroRows ==
    <<[id |-> IntV(1), name |-> Str(<<"i", "n">>), age |-> IntV(1), active |-> BoolV(TRUE),
       full_name |-> Str(<<"i", "n", "-", "f">>)],
      [id |-> IntV(2), name |-> Str(<<"f", "i">>), age |-> IntV(2), active |-> BoolV(FALSE),
       full_name |-> Str(<<"f", "i", "-", "n">>)],
      [id |-> IntV(3), name |-> Str(<<"a", "b">>), age |-> IntV(3), active |-> BoolV(TRUE),
       full_name |-> Str(<<"a", "b", "-", "c">>)]>>

\* SQL LIKE: % matches any run of characters, _ any one character
RECURSIVE LikeMatch(_, _)
LikeMatch(s, p) ==
    IF p = <<>> THEN s = <<>>
    ELSE IF p[1] = "%" THEN LikeMatch(s, Tail(p)) \/ (s # <<>> /\ LikeMatch(Tail(s), p))
    ELSE IF p[1] = "_" THEN s # <<>> /\ LikeMatch(Tail(s), Tail(p))
    ELSE s # <<>> /\ s[1] = p[1] /\ LikeMatch(Tail(s), Tail(p))

\* an ordering comparison of two SQL values: defined on integers; a typed
\* column never matches a value of another type
Compare(k, a, b) ==
    IF a.t = "int" /\ b.t = "int"
    THEN CASE k = ">"  -> a.v > b.v
           [] k = ">=" -> a.v >= b.v
           [] k = "<"  -> a.v < b.v
           [] k = "<=" -> a.v <= b.v
    ELSE FALSE

\* a column value against the operands of a predicate
Holds(k, lowered, val, args) ==
    CASE k = "="           -> val = args[1]
      [] k = "!="          -> val # args[1]
      [] k \in {">", ">=", "<", "<="} -> Compare(k, val, args[1])
      [] k = "LIKE"        -> /\ val.t = "str"
                              /\ LikeMatch(IF lowered THEN Lower(val.v) ELSE val.v, args[1].v)
      [] k = "ILIKE"       -> val.t = "str" /\ LikeMatch(Lower(val.v), Lower(args[1].v))
      [] k = "IN"          -> \E i \in 1..Len(args) : val = args[i]
      [] k = "BETWEEN"     -> Compare(">=", val, args[1]) /\ Compare("<=", val, args[2])
      [] k = "IS NULL"     -> FALSE
      [] k = "IS NOT NULL" -> TRUE

\* whether a row satisfies a predicate, as the database evaluates it
RECURSIVE Eval(_, _)
Eval(p, row) ==
    IF p.k = "OR" THEN \E i \in 1..Len(p.args) : Eval(p.args[i], row)
    ELSE Holds(p.k, p.lowered, row[p.col.name], p.args) # p.negated

\* the rows a query returns: each row of the table that satisfies every
\* WHERE condition, once
Rows(q) ==
    SelectSeq(HeroRows, LAMBDA row : \A i \in 1..Len(q.where) : Eval(q.where[i], row))

\* the rows a query returns from the table as it is when the statement runs
RowsIn(table, q) ==
    SelectSeq(table, LAMBDA row : \A i \in 1..Len(q.where) : Eval(q.where[i], row))

---------------------------------------------------------------------------
(* FilterEngine (filters.py).                                              *)

NoError == [exc |-> None, status |-> 0, field |-> None, available |-> <<>>]

\* HTTPException(400, "Unknown field '<field>'. Available fields: <a, b, c>")
UnknownField(field, columns_map) ==
    [exc |-> "HTTPException", status |-> 400, field |-> field,
     available |-> Sorted(Keys(columns_map))]

\* an exception that left a strategy and is not an HTTPException
Uncaught(exc) == [exc |-> exc, status |-> 0, field |-> None, available |-> <<>>]

\* the addresses a column object created on the fly can be placed at
Addresses == {"0x1", "0x2"}

\* id(column): the address of the object.  A column of the mapped table lives
\* as long as the table and is identified by its name; an object created on
\* the fly carries the address it was placed at.
Id(col) == IF "address" \in DOMAIN col THEN col.address ELSE col.name

\* FilterEngine.get_column_type: the memo after the call
get_column_type(cache, col) ==
    IF Id(col) \in DOMAIN cache THEN cache ELSE cache @@ (Id(col) :> python_type(col))

\* a resolution that asks the entity alone
EntityOnly(q, columns_map, field) == get_entity_attribute(q, field)

\* the stored column of that name, else the entity's computed expression
resolve_field(q, columns_map, field) ==
    IF MapGet(columns_map, field) # NoColumn THEN MapGet(columns_map, field)
    ELSE get_entity_attribute(q, field)

\* an engine that raises on an unresolved field whatever its mode
RaisesOnUnknownAlways(strict) == TRUE

\* "if self.strict_mode: raise" for a field that did not resolve
RaisesOnUnknown(strict) == strict

\* a loop that appends whatever the strategy returned
CollectAlways(conditions, c) == Append(conditions, c)

\* "if condition is not None: conditions.append(condition)"
Collect(conditions, c) == IF c.k # "None" THEN Append(conditions, c) ELSE conditions

\* the state of the loop before any filter: nothing raised, no condition
\* collected, the engine's memo
LoopStart(cache) == [raised |-> NoError, conditions |-> <<>>, cache |-> cache]

\* the condition of a resolved column joins the conditions, or its exception
\* leaves the loop
Built(acc, col, c, cache2) ==
    IF c.k = "raise"
    THEN [acc EXCEPT !.raised = Uncaught(c.args[1].v), !.cache = cache2]
    ELSE [acc EXCEPT !.conditions = Collect(@, c), !.cache = cache2]

\* the body of the loop for a column that resolved
OnColumn(acc, col, f, cache2) ==
    Built(acc, col, build_filter_condition(col, f, cache2[Id(col)]), cache2)

\* the body of the loop for one filter, given what the field resolved to
OnResolved(strict, columns_map, f, acc, col) ==
    IF col = NoColumn
    THEN IF RaisesOnUnknown(strict)
         THEN [acc EXCEPT !.raised = UnknownField(f.field, columns_map)]
         ELSE acc
    ELSE OnColumn(acc, col, f, get_column_type(acc.cache, col))

\* one iteration of the loop of FilterEngine.apply_filters
FilterStep(strict, q, columns_map, f, acc) ==
    OnResolved(strict, columns_map, f, acc, resolve_field(q, columns_map, f.field))

\* the loop over the filters left; a raise ends it
RECURSIVE FilterLoop(_, _, _, _, _)
FilterLoop(strict, q, columns_map, fs, acc) ==
    IF fs = <<>> \/ acc.raised # NoError THEN acc
    ELSE FilterLoop(strict, q, columns_map, Tail(fs),
                    FilterStep(strict, q, columns_map, Head(fs), acc))

\* a return that attaches the first collected condition alone
ReturnedFirst(q, acc) ==
    [raised |-> acc.raised,
     query  |-> IF acc.raised = NoError /\ acc.conditions # <<>>
                THEN Where(q, <<acc.conditions[1]>>) ELSE q,
     cache  |-> acc.cache]

\* what a call returns to its caller: the exception, or the query with the
\* collected conditions attached when there are any
Returned(q, acc) ==
    [raised |-> acc.raised,
     query  |-> IF acc.raised = NoError /\ acc.conditions # <<>>
                THEN Where(q, acc.conditions) ELSE q,
     cache  |-> acc.cache]

\* FilterEngine.apply_filters: what it raises, the query it returns (the
\* caller's query when it raises) and the memo afterwards
apply_filters(strict, cache, q, columns_map, fs) ==
    IF fs = <<>> THEN [raised |-> NoError, query |-> q, cache |-> cache]
    ELSE Returned(q, FilterLoop(strict, q, columns_map, fs, LoopStart(cache)))

\* or_(*predicates)
Or(predicates) ==
    [k |-> "OR", col |-> None, cast |-> FALSE, lowered |-> FALSE,
     negated |-> FALSE, args |-> predicates]

\* what a group adds to the conditions: the OR of its predicates, or nothing
\* when it has none
GroupCondition(conditions, predicates) ==
    IF predicates = <<>> THEN conditions ELSE Append(conditions, Or(predicates))

\* one group: its members resolved and built as apply_filters does, its
\* predicates ORed into one condition
GroupBuilt(acc, g) ==
    IF g.raised # NoError
    THEN [acc EXCEPT !.raised = g.raised, !.cache = g.cache]
    ELSE [acc EXCEPT !.conditions = GroupCondition(@, g.conditions), !.cache = g.cache]

GroupStep(strict, q, columns_map, group, acc) ==
    GroupBuilt(acc, FilterLoop(strict, q, columns_map, group.filters, LoopStart(acc.cache)))

RECURSIVE GroupLoop(_, _, _, _, _)
GroupLoop(strict, q, columns_map, groups, acc) ==
    IF groups = <<>> \/ acc.raised # NoError THEN acc
    ELSE GroupLoop(strict, q, columns_map, Tail(groups),
                   GroupStep(strict, q, columns_map, Head(groups), acc))

\* FilterEngine.apply_or_filter_groups
apply_or_filter_groups(strict, cache, q, columns_map, groups) ==
    IF groups = <<>> THEN [raised |-> NoError, query |-> q, cache |-> cache]
    ELSE Returned(q, GroupLoop(strict, q, columns_map, groups, LoopStart(cache)))

OrFilterGroup(fs) == [filters |-> fs]

---------------------------------------------------------------------------
(* SortEngine (sorting.py).                                                *)

SortingQuery(sort_by, order) == [sort_by |-> sort_by, order |-> order]

\* sorting is None
NoSorting == SortingQuery(None, None)

\* query.order_by(column.asc())
OrderAscending(q, col, order) ==
    [q EXCEPT !.order_by = Append(@, [col |-> col, desc |-> FALSE])]

\* query.order_by(column.desc() or column.asc())
OrderBy(q, col, order) ==
    [q EXCEPT !.order_by = Append(@, [col |-> col, desc |-> (order = "desc")])]

\* a sort step that hands the query on as it came
SortSkipped(strict, q, columns_map, srt) == [raised |-> NoError, query |-> q]

\* the tail of SortEngine.apply_sort, given what sort_by resolved to
SortOnResolved(strict, q, columns_map, srt, col) ==
    IF col = NoColumn
    THEN IF strict
         THEN [raised |-> UnknownField(srt.sort_by, columns_map), query |-> q]
         ELSE [raised |-> NoError, query |-> q]
    ELSE [raised |-> NoError, query |-> OrderBy(q, col, srt.order)]

\* SortEngine.apply_sort
apply_sort(strict, q, columns_map, srt) ==
    IF srt = NoSorting \/ srt.sort_by = "" THEN [raised |-> NoError, query |-> q]
    ELSE SortOnResolved(strict, q, columns_map, srt,
                        resolve_field(q, columns_map, srt.sort_by))

---------------------------------------------------------------------------
(* The database: what executing a query returns.                           *)

RECURSIVE StrLess(_, _)
StrLess(a, b) ==
    IF b = <<>> THEN FALSE
    ELSE IF a = <<>> THEN TRUE
    ELSE IF a[1] = b[1] THEN StrLess(Tail(a), Tail(b))
    ELSE \E i, j \in 1..Len(LowerCase) : LowerCase[i] = a[1] /\ LowerCase[j] = b[1] /\ i < j

\* the order of two values of one column
ValueLess(a, b) ==
    CASE a.t = "int"  -> a.v < b.v
      [] a.t = "bool" -> ~a.v /\ b.v
      [] a.t = "str"  -> StrLess(a.v, b.v)

\* row r comes before row t under one ORDER BY key
Before(key, r, t) ==
    IF key.desc THEN ValueLess(t[key.col.name], r[key.col.name])
    ELSE ValueLess(r[key.col.name], t[key.col.name])

\* the position of rows[j] once rows is sorted on key; equal keys keep
\* their order
Rank(rows, key, j) ==
    1 + Cardinality({k \in 1..Len(rows) :
                        \/ Before(key, rows[k], rows[j])
                        \/ (~Before(key, rows[j], rows[k]) /\ k < j)})

SortRows(rows, key) ==
    [i \in 1..Len(rows) |-> rows[CHOOSE j \in 1..Len(rows) : Rank(rows, key, j) = i]]

\* rows sorted on the ORDER BY keys, the first key the most significant
RECURSIVE SortAll(_, _)
SortAll(rows, order_by) ==
    IF order_by = <<>> THEN rows
    ELSE SortRows(SortAll(rows, Tail(order_by)), Head(order_by))

\* session.exec(query).all(): the rows of the query in its order
Execute(q) == SortAll(Rows(q), q.order_by)

Min(a, b) == IF a < b THEN a ELSE b

\* max(1, n) that lets n through
CeilAlone(a, b) == b

Max(a, b) == IF a > b THEN a ELSE b

\* OFFSET page * per_page LIMIT per_page over a row list
OffsetFromPage(rows, pg) ==
    SubSeq(rows, pg.page * pg.per_page + 1,
           Min(Len(rows), (pg.page + 1) * pg.per_page))

\* OFFSET (page - 1) * per_page LIMIT per_page over a row list
OffsetLimit(rows, pg) ==
    SubSeq(rows, (pg.page - 1) * pg.per_page + 1,
           Min(Len(rows), pg.page * pg.per_page))

---------------------------------------------------------------------------
(* PaginationEngine (pagination.py).                                       *)

PaginationQuery(page, per_page) == [page |-> page, per_page |-> per_page]

\* a bind whose dialect cannot be read: bind.dialect.name raises
Broken == "AttributeError"

\* a session: bind is None, Broken or the dialect name of its bind;
\* sync_session is the session an async session wraps
Session(bind, sync_session) == [bind |-> bind, sync_session |-> sync_session]

\* getattr(session, "sync_session", None) of a session that wraps the
\* session with this bind
SyncSession(bind) == [bind |-> bind]

\* getattr(session, "sync_session", None) is None
NoSyncSession == SyncSession("no sync_session")

\* a detection that never looks at the wrapped session
DetectOnBind(sess) == sess.bind = "postgresql"

\* _detect_postgresql: an exception while probing is swallowed
_detect_postgresql(sess) ==
    IF sess.bind # None
    THEN (IF sess.bind = Broken THEN FALSE ELSE sess.bind = "postgresql")
    ELSE IF sess.sync_session # NoSyncSession /\ sess.sync_session.bind # None
    THEN (IF sess.sync_session.bind = Broken THEN FALSE
          ELSE sess.sync_session.bind = "postgresql")
    ELSE FALSE

\* a session on SQLite
SqliteSession == Session("sqlite", NoSyncSession)

\* the sessions a request is served on: bound to PostgreSQL or SQLite,
\* without a bind, async over PostgreSQL or over a session without a bind,
\* and with a bind, own or wrapped, whose dialect cannot be read
Sessions ==
    {Session("postgresql", NoSyncSession),
     SqliteSession,
     Session(None, NoSyncSession),
     Session(None, SyncSession("postgresql")),
     Session(None, SyncSession("sqlite")),
     Session(None, SyncSession(None)),
     Session(None, SyncSession(Broken)),
     Session(Broken, SyncSession("postgresql"))}

\* PaginationEngine._should_use_window_function
_should_use_window_function(uwf, sess) ==
    IF uwf # None THEN uwf = "True" ELSE _detect_postgresql(sess)

\* PaginationEngine.paginate
paginate(q, pg) == OffsetLimit(Execute(q), pg)

\* PaginationEngine.count_total: SELECT count(*) FROM (query)
count_total(q) == Len(Rows(q))

\* the rows of SELECT sub.*, COUNT(*) OVER () FROM (query) sub OFFSET .. LIMIT ..:
\* each row of the page carries the number of rows of the subquery
WindowRows(q, pg) ==
    [i \in 1..Len(OffsetLimit(Execute(q), pg)) |->
        [row |-> OffsetLimit(Execute(q), pg)[i], _total_count |-> Len(Execute(q))]]

\* the tail of _paginate_with_window, given the rows of the window query
StripTotalCount(rows) ==
    IF rows = <<>> THEN [data |-> <<>>, total |-> 0]
    ELSE [data |-> [i \in 1..Len(rows) |-> rows[i].row], total |-> rows[1]._total_count]

\* PaginationEngine._paginate_with_window
_paginate_with_window(q, pg) == StripTotalCount(WindowRows(q, pg))

\* PaginationEngine.paginate_with_count
paginate_with_count(uwf, sess, q, pg) ==
    IF _should_use_window_function(uwf, sess)
    THEN _paginate_with_window(q, pg)
    ELSE [data |-> paginate(q, pg), total |-> count_total(q)]

\* a statement handed to session.exec: what it selects, from which query,
\* and the page it is limited to
Statement(kind, q, pg) == [kind |-> kind, query |-> q, page |-> pg]

\* the statements paginate_with_count hands to session.exec, in order
Statements(uwf, sess, q, pg) ==
    IF _should_use_window_function(uwf, sess)
    THEN <<Statement("window", q, pg)>>
    ELSE <<Statement("count", q, None), Statement("data", q, pg)>>

\* session.exec(query).all() on the table as it is when the statement runs
ExecuteIn(table, q) == SortAll(RowsIn(table, q), q.order_by)

\* the rows of the window query on the table as it is when the statement runs
WindowRowsIn(table, q, pg) ==
    [i \in 1..Len(OffsetLimit(ExecuteIn(table, q), pg)) |->
        [row |-> OffsetLimit(ExecuteIn(table, q), pg)[i],
         _total_count |-> Len(ExecuteIn(table, q))]]

\* a // b
FloorDiv(a, b) == a \div b

\* math.ceil(a / b) for a >= 0, b >= 1
Ceil(a, b) == (a + b - 1) \div b

\* str(n) for an integer n >= 0
RECURSIVE NatToStr(_)
NatToStr(n) ==
    IF n < 10 THEN <<Digits[n + 1]>>
    ELSE NatToStr(n \div 10) \o <<Digits[(n % 10) + 1]>>

\* one key=value pair of a query string
Param(k, v) == [k |-> k, v |-> v]

\* request.url: the path and the query string, pair by pair
URL(path, query_params) == [path |-> path, query |-> query_params]

\* a link that is None
NoUrl == URL(None, <<>>)

\* the pairs of a query string whose key is not one of keys
WithoutKeys(query_params, keys) ==
    SelectSeq(query_params, LAMBDA prm : prm.k \notin keys)

\* url.include_query_params(page=page, per_page=per_page) that keeps nothing
\* of the query string of url
OnlyPageParams(url, page, per_page) ==
    URL(url.path, <<Param("page", NatToStr(page)), Param("per_page", NatToStr(per_page))>>)

\* url.include_query_params(page=page, per_page=per_page): the pairs of url
\* with another key stay, in their order, and page and per_page follow them
include_query_params(url, page, per_page) ==
    URL(url.path,
        WithoutKeys(url.query, {"page", "per_page"})
            \o <<Param("page", NatToStr(page)), Param("per_page", NatToStr(per_page))>>)

Links(url, pg, total_pages) ==
    [self  |-> include_query_params(url, pg.page, pg.per_page),
     first |-> include_query_params(url, 1, pg.per_page),
     last  |-> include_query_params(url, total_pages, pg.per_page),
     next  |-> IF pg.page < total_pages
               THEN include_query_params(url, pg.page + 1, pg.per_page) ELSE NoUrl,
     prev  |-> IF pg.page > 1
               THEN include_query_params(url, pg.page - 1, pg.per_page) ELSE NoUrl]

\* Meta(pagination=.., filters=.., sort=..): or_filters keeps its default,
\* None, written as the empty list
Meta(total_items, pg, total_pages, fs, srt) ==
    [pagination |-> [total_items |-> total_items, per_page |-> pg.per_page,
                     current_page |-> pg.page, total_pages |-> total_pages],
     filters    |-> fs,
     or_filters |-> <<>>,
     sort       |-> srt]

PaginatedResponse(url, total_items, data_page, pg, total_pages, fs, srt) ==
    [data  |-> data_page,
     meta  |-> Meta(total_items, pg, total_pages, fs, srt),
     links |-> Links(url, pg, total_pages)]

\* PaginationEngine.build_response
build_response(url, pg, total_items, data_page, fs, srt) ==
    PaginatedResponse(url, total_items, data_page, pg,
                      Max(1, Ceil(total_items, pg.per_page)), fs, srt)

\* the request of an idle state
NoRequest == [url |-> URL("/", <<>>)]

\* no response has been built
NoResponse ==
    build_response(NoRequest.url, PaginationQuery(1, 1), 0, <<>>, <<>>, NoSorting)

\* the parameters build_response declares
BuildResponseParameters == {"total_items", "data_page", "filters", "sorting"}

\* the keywords generate_response passes to build_response
GenerateResponseKeywords == {"total_items", "data_page", "filters", "or_filters", "sorting"}

---------------------------------------------------------------------------
(* FSPManager.generate_response (fsp.py).                                  *)

\* generate_response left by an exception
Failed(exc, cache) ==
    [raised |-> exc, response |-> NoResponse, cache |-> cache, statements |-> <<>>]

\* the call of build_response with keywords: a keyword the method does not
\* declare is a TypeError
Responded(url, pg, fs, srt, cache, page, executed) ==
    IF GenerateResponseKeywords \subseteq BuildResponseParameters
    THEN [raised |-> NoError,
          response |-> build_response(url, pg, page.total, page.data, fs, srt),
          cache |-> cache, statements |-> executed]
    ELSE [Failed(Uncaught("TypeError"), cache) EXCEPT !.statements = executed]

AfterSort(url, pg, uwf, sess, fs, srt, cache, sorted) ==
    IF sorted.raised # NoError THEN Failed(sorted.raised, cache)
    ELSE Responded(url, pg, fs, srt, cache,
                   paginate_with_count(uwf, sess, sorted.query, pg),
                   Statements(uwf, sess, sorted.query, pg))

AfterOrFilters(sort_strict, columns_map, url, pg, uwf, sess, fs, srt, ored) ==
    IF ored.raised # NoError THEN Failed(ored.raised, ored.cache)
    ELSE AfterSort(url, pg, uwf, sess, fs, srt, ored.cache,
                   apply_sort(sort_strict, ored.query, columns_map, srt))

AfterFilters(strict, sort_strict, columns_map, url, pg, uwf, sess, fs, groups, srt, filtered) ==
    IF filtered.raised # NoError THEN Failed(filtered.raised, filtered.cache)
    ELSE AfterOrFilters(sort_strict, columns_map, url, pg, uwf, sess, fs, srt,
             apply_or_filter_groups(strict, filtered.cache, filtered.query, columns_map, groups))

\* FSPManager.generate_response
generate_response(strict, sort_strict, cache, q, url, fs, groups, srt, pg, uwf, sess) ==
    AfterFilters(strict, sort_strict, selected_columns(q), url, pg, uwf, sess, fs, groups, srt,
                 apply_filters(strict, cache, q, selected_columns(q), fs))

---------------------------------------------------------------------------
(* The parsers of the query string (fsp.py).  An outcome is the record     *)
(*   [raised, none, value]:                                                *)
(* raised the exception that left the parser or NoError, none whether it   *)
(* returned None, value the list it returned.                              *)

\* the characters of s as one string
RECURSIVE Text(_)
Text(s) == IF s = <<>> THEN "" ELSE s[1] \o Text(Tail(s))

\* request.query_params
query_params(req) == req.url.query

\* QueryParams.getlist(key): the values of key, in the order of the query string
getlist(qp, key) ==
    [i \in 1..Len(SelectSeq(qp, LAMBDA prm : prm.k = key)) |->
        SelectSeq(qp, LAMBDA prm : prm.k = key)[i].v]

\* a value that is None
Absent == [present |-> FALSE, v |-> <<>>]

Present(v) == [present |-> TRUE, v |-> v]

\* QueryParams.get(key), given getlist(key): the last value of key, else None
LastOf(values) == IF values = <<>> THEN Absent ELSE Present(values[Len(values)])

\* QueryParams.get(key)
get(qp, key) == LastOf(getlist(qp, key))

\* HTTPException(400, detail); index is the filter index the detail names,
\* -1 when it names none
BadRequest(detail, index) ==
    [exc |-> "HTTPException", status |-> 400, detail |-> detail, index |-> index]

Parsed(value) == [raised |-> NoError, none |-> FALSE, value |-> value]

ParsedNone == [raised |-> NoError, none |-> TRUE, value |-> <<>>]

Rejected(exc) == [raised |-> exc, none |-> TRUE, value |-> <<>>]

\* _parse_one_filter_at that takes every operator token
AnyOperatorFilterAt(i, field, operator, value) ==
    Parsed(<<Filter(Text(field), Text(operator), value)>>)

\* _parse_one_filter_at: FilterOperator(operator) raises ValueError for a
\* token that is not the value of a member
_parse_one_filter_at(i, field, operator, value) ==
    IF Text(operator) \in FilterOperator
    THEN Parsed(<<Filter(Text(field), Text(operator), value)>>)
    ELSE Rejected(BadRequest("Invalid operator", i))

\* the list comprehension of _parse_array_of_filters from position i on
RECURSIVE ArrayFilters(_, _, _, _, _)
ArrayNext(fields, operators, values, i, acc, one) ==
    IF one.raised # NoError THEN one
    ELSE ArrayFilters(fields, operators, values, i + 1, acc \o one.value)

ArrayFilters(fields, operators, values, i, acc) ==
    IF i > Len(fields) THEN Parsed(acc)
    ELSE ArrayNext(fields, operators, values, i, acc,
                   _parse_one_filter_at(i - 1, fields[i], operators[i], values[i]))

\* _parse_array_of_filters
_parse_array_of_filters(fields, operators, values) ==
    IF ~(Len(fields) = Len(operators) /\ Len(operators) = Len(values))
    THEN Rejected(BadRequest("Mismatched filter parameters in array format", -1))
    ELSE ArrayFilters(fields, operators, values, 1, <<>>)

\* f"filters[{i}][{part}]"
IndexedKey(i, part) == "filters[" \o Text(NatToStr(i)) \o "][" \o part \o "]"

\* the while loop of _parse_filters from index i on
RECURSIVE IndexedFilters(_, _, _)
IndexedNext(qp, i, acc, one) ==
    IF one.raised # NoError THEN one
    ELSE IndexedFilters(qp, i + 1, acc \o one.value)

IndexedAt(qp, i, acc, field, operator, value) ==
    IF ~field.present THEN Parsed(acc)
    ELSE IF ~operator.present \/ ~value.present
    THEN Rejected(BadRequest("Incomplete filter", i))
    ELSE IndexedNext(qp, i, acc, _parse_one_filter_at(i, field.v, operator.v, value.v))

IndexedFilters(qp, i, acc) ==
    IndexedAt(qp, i, acc, get(qp, IndexedKey(i, "field")),
              get(qp, IndexedKey(i, "operator")), get(qp, IndexedKey(i, "value")))

\* _parse_filters after the simple form was parsed
AfterSimple(simple) ==
    IF simple.raised # NoError THEN simple
    ELSE IF simple.value # <<>> THEN simple
    ELSE ParsedNone

\* _parse_filters after the indexed form was scanned
AfterIndexed(qp, indexed) ==
    IF indexed.raised # NoError THEN indexed
    ELSE IF indexed.value # <<>> THEN indexed
    ELSE AfterSimple(_parse_array_of_filters(getlist(qp, "field"), getlist(qp, "operator"),
                                             getlist(qp, "value")))

\* _parse_filters
_parse_filters(req) == AfterIndexed(query_params(req), IndexedFilters(query_params(req), 0, <<>>))

\* [f.strip() for f in search_fields_raw.split(",") if f.strip()]
SearchFields(search_fields_raw) ==
    SelectSeq(StripEach(Split(search_fields_raw, ",")), LAMBDA f : f # <<>>)

\* _parse_search that keeps the blank pieces of search_fields
SearchAllPieces(search, fields) ==
    Parsed(<<OrFilterGroup([i \in 1..Len(fields) |-> Filter(Text(fields[i]), "contains", search)])>>)

\* _parse_search once the fields are known
SearchOver(search, fields) ==
    IF fields = <<>>
    THEN Rejected(BadRequest("'search_fields' must contain at least one field name", -1))
    ELSE Parsed(<<OrFilterGroup([i \in 1..Len(fields) |->
                                    Filter(Text(fields[i]), "contains", search)])>>)

\* _parse_search once search and search_fields are read
SearchWith(search, search_fields_raw) ==
    IF ~search.present \/ search.v = <<>> THEN ParsedNone
    ELSE IF ~search_fields_raw.present \/ search_fields_raw.v = <<>>
    THEN Rejected(BadRequest("'search_fields' is required when 'search' is provided", -1))
    ELSE SearchOver(search.v, SearchFields(search_fields_raw.v))

\* _parse_search
_parse_search(req) ==
    SearchWith(get(query_params(req), "search"), get(query_params(req), "search_fields"))

---------------------------------------------------------------------------
(* SpecValue: _coerce_value and _split_values on every raw string up to    *)
(* MaxLen characters and every column type.                                *)

StringsOver(chars) == UNION {[1..k -> chars] : k \in 0..MaxLen}

IdleValue ==
    /\ coerced = NotCalled
    /\ pieces = <<>>
    /\ condition = NoPredicate

\* no second request is being served
IdlePeer ==
    [pc |-> "idle", _type_cache |-> <<>>, query |-> SelectOf(None), raised |-> NoError]

\* a FilterBuilder nothing has been added to
IdleBuilder == [values |-> <<>>, _filters |-> <<>>]

\* no column object created on the fly is alive
EmptyHeap == [a \in Addresses |-> NoColumn]

\* the table as it is filled, no statement executed yet
IdleDatabase == [rows |-> HeroRows, statements |-> <<>>]

\* no request is being served
IdleFilter ==
    /\ strict_mode = FALSE
    /\ sort_strict_mode = strict_mode
    /\ _type_cache = <<>>
    /\ filters = <<>>
    /\ or_filters = <<>>
    /\ base = SelectOf(None)
    /\ query = SelectOf(None)
    /\ raised = NoError

\* no page is being requested
IdlePage ==
    /\ request = NoRequest
    /\ parse_outcome = ParsedNone
    /\ sorting = NoSorting
    /\ pagination = PaginationQuery(1, 1)
    /\ use_window_function = None
    /\ session = SqliteSession
    /\ result = [data |-> <<>>, total |-> 0]
    /\ response = NoResponse

InitValue ==
    /\ pc = "input"
    /\ raw \in StringsOver(RawChars)
    /\ column \in {Column("c", ty, TRUE) : ty \in ColumnTypes}
    /\ dt_parse \in IF column.type = "datetime" THEN DatetimeOutcomes ELSE {"ParserError"}
    /\ FILTER_STRATEGIES = DefaultStrategies
    /\ registrations = <<>>
    /\ peer = IdlePeer
    /\ database = IdleDatabase
    /\ heap = EmptyHeap
    /\ builder = IdleBuilder
    /\ IdleValue
    /\ IdleFilter
    /\ IdlePage

\* _coerce_value(column, raw) or _coerce_value(column, raw, pytype) with the
\* pre-fetched type of the column
CoerceValue ==
    /\ pc = "input"
    /\ \E pytype \in {None, python_type(column)} :
           coerced' = _coerce_value(column, raw, pytype)
    /\ pc' = "coerced"
    /\ UNCHANGED <<builder, raw, column, dt_parse, pieces, condition, registryVars, heap, peer, database, filterVars, pageVars>>

SplitValues ==
    /\ pc = "input"
    /\ pieces' = _split_values(raw)
    /\ pc' = "split"
    /\ UNCHANGED <<builder, raw, column, dt_parse, coerced, condition, registryVars, heap, peer, database, filterVars, pageVars>>

NextValue == CoerceValue \/ SplitValues

SpecValue == InitValue /\ [][NextValue]_vars

---------------------------------------------------------------------------
(* SpecStrategy: build_filter_condition for every operator tag, every      *)
(* column type and every raw value over StrategyChars.                     *)

InitStrategy ==
    /\ pc = "input"
    /\ raw \in StringsOver(StrategyChars)
    /\ column \in {Column("c", ty, il) : ty \in ColumnTypes, il \in BOOLEAN}
    /\ dt_parse \in IF column.type = "datetime" THEN DatetimeOutcomes ELSE {"ParserError"}
    /\ FILTER_STRATEGIES = DefaultStrategies
    /\ registrations = <<>>
    /\ peer = IdlePeer
    /\ database = IdleDatabase
    /\ heap = EmptyHeap
    /\ builder = IdleBuilder
    /\ IdleValue
    /\ IdleFilter
    /\ IdlePage

\* FilterEngine.build_filter_condition(column, Filter(...)) with or without
\* the pre-fetched type
BuildFilterCondition ==
    /\ pc = "input"
    /\ \E op \in FilterOperator, pytype \in {None, python_type(column)} :
           /\ condition' = build_filter_condition(column, Filter(column.name, op, raw), pytype)
           /\ pc' = op
    /\ UNCHANGED <<builder, raw, column, dt_parse, coerced, pieces, registryVars, heap, peer, database, filterVars, pageVars>>

NextStrategy == BuildFilterCondition

SpecStrategy == InitStrategy /\ [][NextStrategy]_vars

---------------------------------------------------------------------------
(* SpecRegistry: calls of register_strategy followed by a call of          *)
(* build_filter_condition.                                                 *)

\* the strategies callers register: one of their own and a built-in one
RegisteredStrategies == {"custom_eq", "_strategy_ne"}

InitRegistry ==
    /\ pc = "input"
    /\ raw = <<"1">>
    /\ column = Column("c", "int", TRUE)
    /\ dt_parse = "ParserError"
    /\ FILTER_STRATEGIES = DefaultStrategies
    /\ registrations = <<>>
    /\ peer = IdlePeer
    /\ database = IdleDatabase
    /\ heap = EmptyHeap
    /\ builder = IdleBuilder
    /\ IdleValue
    /\ IdleFilter
    /\ IdlePage

\* FilterEngine.register_strategy(op, fn)
RegisterStrategy ==
    /\ pc = "input"
    /\ Len(registrations) < MaxRegistrations
    /\ \E op \in FilterOperator, fn \in RegisteredStrategies :
           /\ FILTER_STRATEGIES' = register_strategy(FILTER_STRATEGIES, op, fn)
           /\ registrations' = Append(registrations, [operator |-> op, strategy |-> fn])
    /\ UNCHANGED <<builder, pc, valueVars, heap, peer, database, filterVars, pageVars>>

NextRegistry ==
    \/ RegisterStrategy
    \/ BuildFilterCondition

SpecRegistry == InitRegistry /\ [][NextRegistry]_vars

---------------------------------------------------------------------------
(* SpecFilter: a FilterEngine applying the AND-filters and then the OR     *)
(* groups of a request to a base query.                                    *)

\* the filters a request may carry
FilterUniverse ==
    {Filter("age", "gte", <<"2">>),
     Filter("age", "between", <<"1">>),
     Filter("age", "eq", <<"i", "n", "f">>),
     Filter("name", "contains", <<"i">>),
     Filter("full_name", "eq", <<"i", "n", "-", "f">>),
     Filter("nosuch", "eq", <<"1">>),
     Filter("display", "eq", <<"1">>)}

\* the OR groups a request may carry
GroupUniverse ==
    {OrFilterGroup(<<Filter("name", "contains", <<"i">>),
                     Filter("full_name", "contains", <<"i">>)>>),
     OrFilterGroup(<<Filter("nosuch", "contains", <<"i">>)>>),
     OrFilterGroup(<<Filter("age", "eq", <<"3">>),
                     Filter("name", "contains", <<"f">>)>>)}

ListsOver(universe, n) == UNION {[1..k -> universe] : k \in 0..n}

InitFilter ==
    /\ pc = "new"
    /\ strict_mode \in BOOLEAN
    /\ sort_strict_mode = strict_mode
    /\ _type_cache = <<>>
    /\ filters \in ListsOver(FilterUniverse, MaxFilters)
    /\ or_filters \in ListsOver(GroupUniverse, MaxGroups)
    /\ base \in {SelectOf("Hero"), SelectOf(None)}
    /\ query = base
    /\ raised = NoError
    /\ dt_parse = "ParserError"
    /\ raw = <<>>
    /\ column = NoColumn
    /\ FILTER_STRATEGIES = DefaultStrategies
    /\ registrations = <<>>
    /\ peer = IdlePeer
    /\ database = IdleDatabase
    /\ heap = EmptyHeap
    /\ builder = IdleBuilder
    /\ IdleValue
    /\ IdlePage

\* query = engine.apply_filters(query, columns_map, filters)
ApplyFilters ==
    /\ pc = "new"
    /\ \E r \in {apply_filters(strict_mode, _type_cache, query, selected_columns(base), filters)} :
           /\ raised' = r.raised
           /\ query' = r.query
           /\ _type_cache' = r.cache
           /\ pc' = IF r.raised = NoError THEN "filtered" ELSE "failed"
    /\ UNCHANGED <<builder, valueVars, registryVars, heap, peer, database, strict_mode, sort_strict_mode, filters, or_filters, base, pageVars>>

\* query = engine.apply_or_filter_groups(query, columns_map, or_filters)
ApplyOrFilterGroups ==
    /\ pc = "filtered"
    /\ \E r \in {apply_or_filter_groups(strict_mode, _type_cache, query,
                                         selected_columns(base), or_filters)} :
           /\ raised' = r.raised
           /\ query' = r.query
           /\ _type_cache' = r.cache
           /\ pc' = IF r.raised = NoError THEN "or_filtered" ELSE "or_failed"
    /\ UNCHANGED <<builder, valueVars, registryVars, heap, peer, database, strict_mode, sort_strict_mode, filters, or_filters, base, pageVars>>

NextFilter == ApplyFilters \/ ApplyOrFilterGroups

SpecFilter == InitFilter /\ [][NextFilter]_vars

---------------------------------------------------------------------------
(* Spec: a request served by an FSPManager, either by generate_response or *)
(* stage by stage: filters, OR groups, sort, page and count, response.     *)

\* the AND-filters of the requests paged
PagedFilters ==
    {Filter("age", "gte", <<"2">>), Filter("age", "gt", <<"3">>)}

\* the OR groups of the requests paged
PagedGroups ==
    {OrFilterGroup(<<Filter("age", "eq", <<"3">>), Filter("name", "contains", <<"f">>)>>)}

\* the sorts of the requests paged
PagedSortings ==
    {NoSorting, SortingQuery("", "asc"), SortingQuery("age", "asc"),
     SortingQuery("age", "desc"), SortingQuery("full_name", "desc"),
     SortingQuery("display", "desc"), SortingQuery("nosuch", "asc")}

\* the requests whose page and per_page are those of pg: with no query
\* string, with the two parameters alone, and with other parameters around
\* them
Requests(pg) ==
    {[url |-> URL("/heroes", qs)] :
        qs \in {<<>>,
                <<Param("page", NatToStr(pg.page)), Param("per_page", NatToStr(pg.per_page))>>,
                <<Param("sort_by", <<"a", "g", "e">>), Param("page", NatToStr(pg.page)),
                  Param("per_page", NatToStr(pg.per_page)), Param("order", <<"a", "s", "c">>)>>,
                <<Param("per_page", NatToStr(pg.per_page)), Param("field", <<"a", "g", "e">>),
                  Param("page", NatToStr(pg.page))>>}}

Init ==
    /\ pc = "new"
    /\ strict_mode \in BOOLEAN
    /\ sort_strict_mode = strict_mode
    /\ _type_cache = <<>>
    /\ filters \in ListsOver(PagedFilters, MaxFilters)
    /\ or_filters \in ListsOver(PagedGroups, MaxGroups)
    /\ sorting \in PagedSortings
    /\ pagination \in {PaginationQuery(p, n) : p \in 1..MaxPage, n \in 1..MaxPerPage}
    /\ request \in Requests(pagination)
    /\ parse_outcome = ParsedNone
    /\ use_window_function \in {"True", "False", None}
    /\ session \in {Session("postgresql", NoSyncSession), SqliteSession}
    /\ base = SelectOf("Hero")
    /\ query = base
    /\ raised = NoError
    /\ result = [data |-> <<>>, total |-> 0]
    /\ response = NoResponse
    /\ dt_parse = "ParserError"
    /\ raw = <<>>
    /\ column = NoColumn
    /\ FILTER_STRATEGIES = DefaultStrategies
    /\ registrations = <<>>
    /\ peer = IdlePeer
    /\ database = IdleDatabase
    /\ heap = EmptyHeap
    /\ builder = IdleBuilder
    /\ IdleValue

\* query = engine.apply_sort(query, columns_map, sorting)
ApplySort ==
    /\ pc = "or_filtered"
    /\ \E r \in {apply_sort(sort_strict_mode, query, selected_columns(base), sorting)} :
           /\ raised' = r.raised
           /\ query' = r.query
           /\ pc' = IF r.raised = NoError THEN "sorted" ELSE "sort_failed"
    /\ UNCHANGED <<builder, valueVars, registryVars, heap, peer, database, strict_mode, sort_strict_mode, _type_cache, filters,
                   or_filters, base, pageVars>>

\* data_page, total_items = engine.paginate_with_count(query, session)
PaginateWithCount ==
    /\ pc = "sorted"
    /\ result' = paginate_with_count(use_window_function, session, query, pagination)
    /\ database' = [database EXCEPT !.statements =
                        @ \o Statements(use_window_function, session, query, pagination)]
    /\ pc' = "paginated"
    /\ UNCHANGED <<builder, valueVars, registryVars, heap, peer, filterVars, request, parse_outcome, sorting, pagination,
                   use_window_function, session, response>>

\* response = engine.build_response(total_items, data_page, filters, sorting)
BuildResponse ==
    /\ pc = "paginated"
    /\ response' = build_response(request.url, pagination, result.total, result.data,
                                  filters, sorting)
    /\ pc' = "built"
    /\ UNCHANGED <<builder, valueVars, registryVars, heap, peer, database, filterVars, request, parse_outcome, sorting, pagination,
                   use_window_function, session, result>>

\* response = manager.generate_response(query, session)
GenerateResponse ==
    /\ pc = "new"
    /\ \E r \in {generate_response(strict_mode, sort_strict_mode, _type_cache, query, request.url, filters, or_filters,
                                   sorting, pagination, use_window_function, session)} :
           /\ raised' = r.raised
           /\ response' = r.response
           /\ _type_cache' = r.cache
           /\ database' = [database EXCEPT !.statements = @ \o r.statements]
           /\ pc' = IF r.raised = NoError THEN "responded" ELSE "not_responded"
    /\ UNCHANGED <<builder, valueVars, registryVars, heap, peer, strict_mode, sort_strict_mode, filters, or_filters, base,
                   query, request, parse_outcome, sorting, pagination, use_window_function, session, result>>

Next ==
    \/ ApplyFilters
    \/ ApplyOrFilterGroups
    \/ ApplySort
    \/ PaginateWithCount
    \/ BuildResponse
    \/ GenerateResponse

Spec == Init /\ [][Next]_vars

---------------------------------------------------------------------------
(* SpecPage: the stages of a request up to the page and its count, on      *)
(* every kind of session.                                                  *)

InitPage ==
    /\ pc = "new"
    /\ strict_mode \in BOOLEAN
    /\ sort_strict_mode = strict_mode
    /\ _type_cache = <<>>
    /\ filters \in ListsOver(PagedFilters, MaxFilters)
    /\ or_filters = <<>>
    /\ sorting \in PagedSortings
    /\ pagination \in {PaginationQuery(p, n) : p \in 1..MaxPage, n \in 1..MaxPerPage}
    /\ request = [url |-> URL("/heroes", <<>>)]
    /\ parse_outcome = ParsedNone
    /\ use_window_function \in {"True", "False", None}
    /\ session \in Sessions
    /\ base = SelectOf("Hero")
    /\ query = base
    /\ raised = NoError
    /\ result = [data |-> <<>>, total |-> 0]
    /\ response = NoResponse
    /\ dt_parse = "ParserError"
    /\ raw = <<>>
    /\ column = NoColumn
    /\ FILTER_STRATEGIES = DefaultStrategies
    /\ registrations = <<>>
    /\ peer = IdlePeer
    /\ database = IdleDatabase
    /\ heap = EmptyHeap
    /\ builder = IdleBuilder
    /\ IdleValue

NextPage ==
    \/ ApplyFilters
    \/ ApplyOrFilterGroups
    \/ ApplySort
    \/ PaginateWithCount

SpecPage == InitPage /\ [][NextPage]_vars

---------------------------------------------------------------------------
(* SpecConcurrent: two requests served at the same time, each by its own   *)
(* engines; the steps of the second one fall anywhere between the steps of *)
(* the first.                                                              *)

\* the filters of the second request
PeerFilters == <<Filter("age", "gte", <<"2">>), Filter("name", "contains", <<"i">>)>>

\* the calls of register_strategy the second request makes
PeerRegistrations ==
    {[operator |-> "gte", strategy |-> "custom_eq"],
     [operator |-> "contains", strategy |-> "_strategy_ne"]}

InitConcurrent ==
    /\ pc = "new"
    /\ strict_mode \in BOOLEAN
    /\ sort_strict_mode = strict_mode
    /\ _type_cache = <<>>
    /\ filters \in ListsOver(PagedFilters, MaxFilters)
    /\ or_filters \in ListsOver(PagedGroups, MaxGroups)
    /\ sorting \in {NoSorting, SortingQuery("age", "desc")}
    /\ pagination \in {PaginationQuery(p, n) : p \in 1..MaxPage, n \in 1..MaxPerPage}
    /\ request = [url |-> URL("/heroes", <<>>)]
    /\ parse_outcome = ParsedNone
    /\ use_window_function = "False"
    /\ session = SqliteSession
    /\ base = SelectOf("Hero")
    /\ query = base
    /\ raised = NoError
    /\ result = [data |-> <<>>, total |-> 0]
    /\ response = NoResponse
    /\ dt_parse = "ParserError"
    /\ raw = <<>>
    /\ column = NoColumn
    /\ FILTER_STRATEGIES = DefaultStrategies
    /\ registrations = <<>>
    /\ peer = [pc |-> "new", _type_cache |-> <<>>, query |-> SelectOf("Hero"),
               raised |-> NoError]
    /\ database = IdleDatabase
    /\ heap = EmptyHeap
    /\ builder = IdleBuilder
    /\ IdleValue

\* the second request: FilterEngine.register_strategy(op, fn)
PeerRegisterStrategy ==
    /\ Len(registrations) < MaxRegistrations
    /\ \E call \in PeerRegistrations :
           /\ FILTER_STRATEGIES' = register_strategy(FILTER_STRATEGIES, call.operator,
                                                     call.strategy)
           /\ registrations' = Append(registrations, call)
    /\ UNCHANGED <<builder, pc, valueVars, heap, peer, database, filterVars, pageVars>>

\* the second request: query = engine.apply_filters(query, columns_map, filters)
\* on its own FilterEngine
PeerApplyFilters ==
    /\ peer.pc = "new"
    /\ \E r \in {apply_filters(FALSE, peer._type_cache, peer.query,
                                selected_columns(peer.query), PeerFilters)} :
           peer' = [pc |-> "filtered", _type_cache |-> r.cache, query |-> r.query,
                    raised |-> r.raised]
    /\ UNCHANGED <<builder, pc, valueVars, registryVars, heap, database, filterVars, pageVars>>

NextConcurrent ==
    \/ ApplyFilters
    \/ ApplyOrFilterGroups
    \/ ApplySort
    \/ PaginateWithCount
    \/ PeerRegisterStrategy
    \/ PeerApplyFilters

SpecConcurrent == InitConcurrent /\ [][NextConcurrent]_vars

---------------------------------------------------------------------------
(* SpecSteps: generate_response statement by statement, and as one call,   *)
(* for requests that name fields the entity does not have.                 *)

\* the AND-filters of the requests stepped through
SteppedFilters == {Filter("age", "gte", <<"2">>), Filter("nosuch", "eq", <<"1">>)}

\* the sorts of the requests stepped through
SteppedSortings == {NoSorting, SortingQuery("age", "desc"), SortingQuery("nosuch", "asc")}

InitSteps ==
    /\ pc = "new"
    /\ strict_mode \in BOOLEAN
    /\ sort_strict_mode = strict_mode
    /\ _type_cache = <<>>
    /\ filters \in ListsOver(SteppedFilters, MaxFilters)
    /\ or_filters \in ListsOver(PagedGroups, MaxGroups)
    /\ sorting \in SteppedSortings
    /\ pagination \in {PaginationQuery(p, n) : p \in 1..MaxPage, n \in 1..MaxPerPage}
    /\ request = [url |-> URL("/heroes", <<>>)]
    /\ parse_outcome = ParsedNone
    /\ use_window_function = None
    /\ session \in {Session("postgresql", NoSyncSession), SqliteSession}
    /\ base = SelectOf("Hero")
    /\ query = base
    /\ raised = NoError
    /\ result = [data |-> <<>>, total |-> 0]
    /\ response = NoResponse
    /\ dt_parse = "ParserError"
    /\ raw = <<>>
    /\ column = NoColumn
    /\ FILTER_STRATEGIES = DefaultStrategies
    /\ registrations = <<>>
    /\ peer = IdlePeer
    /\ database = IdleDatabase
    /\ heap = EmptyHeap
    /\ builder = IdleBuilder
    /\ IdleValue

\* return engine.build_response(total_items=.., data_page=.., filters=..,
\*                              or_filters=.., sorting=..)
Respond ==
    /\ pc = "paginated"
    /\ \E r \in {Responded(request.url, pagination, filters, sorting, _type_cache,
                             result, <<>>)} :
           /\ raised' = r.raised
           /\ response' = r.response
           /\ pc' = IF r.raised = NoError THEN "responded" ELSE "not_responded"
    /\ UNCHANGED <<builder, valueVars, registryVars, heap, peer, database, strict_mode, sort_strict_mode, _type_cache,
                   filters, or_filters, base, query, request, parse_outcome, sorting,
                   pagination, use_window_function, session, result>>

NextSteps ==
    \/ ApplyFilters
    \/ ApplyOrFilterGroups
    \/ ApplySort
    \/ PaginateWithCount
    \/ Respond
    \/ GenerateResponse

SpecSteps == InitSteps /\ [][NextSteps]_vars

---------------------------------------------------------------------------
(* SpecResolve: one field name resolved on its own, as the field of a      *)
(* filter and as a sort key, over queries with and without an entity.      *)

\* the names resolved: stored columns, a computed expression, a plain
\* property, a descriptor that raises, and a name the entity does not have
ResolvedNames == {"id", "name", "age", "active", "full_name", "display", "broken", "nosuch"}

InitResolve ==
    /\ pc = "new"
    /\ strict_mode \in BOOLEAN
    /\ sort_strict_mode = strict_mode
    /\ _type_cache = <<>>
    /\ \E field \in ResolvedNames, order \in {"asc", "desc"} :
           /\ filters = <<Filter(field, "eq", <<"1">>)>>
           /\ sorting = SortingQuery(field, order)
    /\ or_filters = <<>>
    /\ pagination = PaginationQuery(1, 1)
    /\ request = NoRequest
    /\ parse_outcome = ParsedNone
    /\ use_window_function = None
    /\ session = SqliteSession
    /\ base \in {SelectOf("Hero"), SelectOf(None)}
    /\ query = base
    /\ raised = NoError
    /\ result = [data |-> <<>>, total |-> 0]
    /\ response = NoResponse
    /\ dt_parse = "ParserError"
    /\ raw = <<>>
    /\ column = NoColumn
    /\ FILTER_STRATEGIES = DefaultStrategies
    /\ registrations = <<>>
    /\ peer = IdlePeer
    /\ database = IdleDatabase
    /\ heap = EmptyHeap
    /\ builder = IdleBuilder
    /\ IdleValue

\* column = columns_map.get(field); if column is None:
\*     column = get_entity_attribute(query, field)
ResolveField ==
    /\ pc = "new"
    /\ column' = resolve_field(query, selected_columns(base), filters[1].field)
    /\ pc' = "resolved"
    /\ UNCHANGED <<builder, raw, dt_parse, coerced, pieces, condition, registryVars, heap, peer, database,
                   filterVars, pageVars>>

NextResolve ==
    \/ ResolveField
    \/ ApplyFilters
    \/ ApplyOrFilterGroups
    \/ ApplySort

SpecResolve == InitResolve /\ [][NextResolve]_vars

---------------------------------------------------------------------------
(* SpecMemo: get_column_type called on two engines with column objects     *)
(* that are created on the fly (a hybrid's expression, a column built by   *)
(* the caller) and die when the last reference to them goes.               *)

\* the columns created on the fly: their names and declared types
FlyColumns == {Column("full_name", "str", TRUE), Column("payload", "null", FALSE)}

\* the column object col placed at address a
Placed(col, a) == [name |-> col.name, type |-> col.type, has_ilike |-> col.has_ilike,
                   address |-> a]

InitMemo ==
    /\ pc = "new"
    /\ strict_mode = FALSE
    /\ sort_strict_mode = strict_mode
    /\ _type_cache = <<>>
    /\ filters = <<>>
    /\ or_filters = <<>>
    /\ base = SelectOf("Hero")
    /\ query = base
    /\ raised = NoError
    /\ dt_parse = "ParserError"
    /\ raw = <<>>
    /\ column = NoColumn
    /\ FILTER_STRATEGIES = DefaultStrategies
    /\ registrations = <<>>
    /\ peer = [pc |-> "new", _type_cache |-> <<>>, query |-> SelectOf("Hero"),
               raised |-> NoError]
    /\ database = IdleDatabase
    /\ heap = EmptyHeap
    /\ builder = IdleBuilder
    /\ IdleValue
    /\ IdlePage

\* a column object is created: the allocator places it at an address no live
\* object occupies, which may be the address of an object that has died
NewColumn ==
    /\ \E a \in Addresses, col \in FlyColumns :
           /\ heap[a] = NoColumn
           /\ heap' = [heap EXCEPT ![a] = Placed(col, a)]
    /\ UNCHANGED <<builder, pc, valueVars, registryVars, peer, database, filterVars, pageVars>>

\* the last reference to a column object goes and the object is freed; the
\* memo holds the address as an integer, which keeps nothing alive
DropColumn ==
    /\ \E a \in Addresses :
           /\ heap[a] # NoColumn
           /\ heap' = [heap EXCEPT ![a] = NoColumn]
    /\ UNCHANGED <<builder, pc, valueVars, registryVars, peer, database, filterVars, pageVars>>

\* engine.get_column_type(column) for a live column object or a column of
\* the table
GetColumnType ==
    /\ \E col \in {heap[a] : a \in Addresses} \cup {MapGet(HeroColumns, "age")} :
           /\ col # NoColumn
           /\ column' = col
           /\ _type_cache' = get_column_type(_type_cache, col)
    /\ pc' = "typed"
    /\ UNCHANGED <<builder, raw, dt_parse, coerced, pieces, condition, registryVars, heap, peer,
                   database, strict_mode, sort_strict_mode, filters, or_filters, base, query, raised, pageVars>>

\* other_engine.get_column_type(column) for a live column object
PeerGetColumnType ==
    /\ \E col \in {heap[a] : a \in Addresses} :
           /\ col # NoColumn
           /\ peer' = [peer EXCEPT !._type_cache = get_column_type(@, col), !.pc = "typed"]
    /\ UNCHANGED <<builder, pc, valueVars, registryVars, heap, database, filterVars, pageVars>>

NextMemo ==
    \/ NewColumn
    \/ DropColumn
    \/ GetColumnType
    \/ PeerGetColumnType

SpecMemo == InitMemo /\ [][NextMemo]_vars

---------------------------------------------------------------------------
(* SpecRace: paginate_with_count statement by statement, while another     *)
(* session commits inserts and deletes; each statement reads the table as  *)
(* it is when it runs.                                                     *)

\* the row another session inserts
InsertedRow ==
    [id |-> IntV(4), name |-> Str(<<"f", "n">>), age |-> IntV(4), active |-> BoolV(TRUE),
     full_name |-> Str(<<"f", "n", "-", "i">>)]

\* the table without its i-th row
WithoutRow(table, i) == SubSeq(table, 1, i - 1) \o SubSeq(table, i + 1, Len(table))

InitRace ==
    /\ pc = "sorted"
    /\ strict_mode = FALSE
    /\ sort_strict_mode = strict_mode
    /\ _type_cache = <<>>
    /\ filters \in ListsOver(PagedFilters, 1)
    /\ or_filters = <<>>
    /\ sorting = NoSorting
    /\ pagination \in {PaginationQuery(p, n) : p \in 1..MaxPage, n \in 1..MaxPerPage}
    /\ request = [url |-> URL("/heroes", <<>>)]
    /\ parse_outcome = ParsedNone
    /\ use_window_function = None
    /\ session \in {Session("postgresql", NoSyncSession), SqliteSession}
    /\ FILTER_STRATEGIES = DefaultStrategies
    /\ base = SelectOf("Hero")
    /\ query = apply_filters(FALSE, <<>>, base, selected_columns(base), filters).query
    /\ raised = NoError
    /\ result = [data |-> <<>>, total |-> 0]
    /\ response = NoResponse
    /\ dt_parse = "ParserError"
    /\ raw = <<>>
    /\ column = NoColumn
    /\ registrations = <<>>
    /\ peer = IdlePeer
    /\ database = IdleDatabase
    /\ heap = EmptyHeap
    /\ builder = IdleBuilder
    /\ IdleValue

\* total = self.count_total(query, session)
CountTotal ==
    /\ pc = "sorted"
    /\ ~_should_use_window_function(use_window_function, session)
    /\ result' = [result EXCEPT !.total = Len(RowsIn(database.rows, query))]
    /\ database' = [database EXCEPT !.statements = Append(@, Statement("count", query, None))]
    /\ pc' = "counted"
    /\ UNCHANGED <<builder, valueVars, registryVars, heap, peer, filterVars, request, parse_outcome,
                   sorting, pagination, use_window_function, session, response>>

\* data = self.paginate(query, session); return data, total
Paginate ==
    /\ pc = "counted"
    /\ result' = [result EXCEPT !.data = OffsetLimit(ExecuteIn(database.rows, query),
                                                     pagination)]
    /\ database' = [database EXCEPT !.statements =
                        Append(@, Statement("data", query, pagination))]
    /\ pc' = "paginated"
    /\ UNCHANGED <<builder, valueVars, registryVars, heap, peer, filterVars, request, parse_outcome,
                   sorting, pagination, use_window_function, session, response>>

\* return self._paginate_with_window(query, session)
PaginateWithWindow ==
    /\ pc = "sorted"
    /\ _should_use_window_function(use_window_function, session)
    /\ result' = StripTotalCount(WindowRowsIn(database.rows, query, pagination))
    /\ database' = [database EXCEPT !.statements =
                        Append(@, Statement("window", query, pagination))]
    /\ pc' = "paginated"
    /\ UNCHANGED <<builder, valueVars, registryVars, heap, peer, filterVars, request, parse_outcome,
                   sorting, pagination, use_window_function, session, response>>

\* another session commits an INSERT
OtherSessionInserts ==
    /\ Len(database.rows) < MaxRows
    /\ \A i \in 1..Len(database.rows) : database.rows[i] # InsertedRow
    /\ database' = [database EXCEPT !.rows = Append(@, InsertedRow)]
    /\ UNCHANGED <<builder, pc, valueVars, registryVars, heap, peer, filterVars, pageVars>>

\* another session commits a DELETE
OtherSessionDeletes ==
    /\ \E i \in 1..Len(database.rows) :
           database' = [database EXCEPT !.rows = WithoutRow(@, i)]
    /\ UNCHANGED <<builder, pc, valueVars, registryVars, heap, peer, filterVars, pageVars>>

NextRace ==
    \/ CountTotal
    \/ Paginate
    \/ PaginateWithWindow
    \/ OtherSessionInserts
    \/ OtherSessionDeletes

SpecRace == InitRace /\ [][NextRace]_vars

---------------------------------------------------------------------------
(* FieldBuilder (builder.py).                                              *)

\* FieldBuilder._to_str for a bool, a str and a non-negative int
_to_str(value) ==
    CASE value.t = "bool" -> IF value.v THEN <<"t", "r", "u", "e">>
                             ELSE <<"f", "a", "l", "s", "e">>
      [] value.t = "int"  -> NatToStr(value.v)
      [] OTHER            -> value.v

\* sep.join(strings)
RECURSIVE Join(_, _)
Join(strings, sep) ==
    IF strings = <<>> THEN <<>>
    ELSE IF Len(strings) = 1 THEN strings[1]
    ELSE strings[1] \o sep \o Join(Tail(strings), sep)

\* ",".join(self._to_str(v) for v in values)
JoinedValues(values) == Join([i \in 1..Len(values) |-> _to_str(values[i])], <<",">>)

\* FieldBuilder._add_filter: the builder with the filter appended
_add_filter(b, field, operator, value, given) ==
    [values |-> given, _filters |-> Append(b._filters, Filter(field, operator, value))]

\* FieldBuilder.in_
in_(b, field, values) == _add_filter(b, field, "in", JoinedValues(values), values)

\* FieldBuilder.not_in
not_in(b, field, values) == _add_filter(b, field, "not_in", JoinedValues(values), values)

\* FieldBuilder.between
between(b, field, low, high) ==
    _add_filter(b, field, "between", _to_str(low) \o <<",">> \o _to_str(high), <<low, high>>)

---------------------------------------------------------------------------
(* SpecBuilder: a filter built by in_, not_in or between, and its value    *)
(* split by the engine.                                                    *)

\* the values given to the builder
BuilderValues ==
    <<Str(<<"a">>), Str(<<"a", ",", "b">>), Str(<<" ", "a">>), Str(<<>>),
      IntV(1), IntV(12), BoolV(TRUE)>>

\* the list of the values picked by position
Picked(picked) == [i \in 1..Len(picked) |-> BuilderValues[picked[i]]]

InitBuilder ==
    /\ pc = "new"
    /\ raw = <<>>
    /\ column \in {Column("c", ty, TRUE) : ty \in {"str", "int"}}
    /\ dt_parse = "ParserError"
    /\ FILTER_STRATEGIES = DefaultStrategies
    /\ registrations = <<>>
    /\ peer = IdlePeer
    /\ database = IdleDatabase
    /\ heap = EmptyHeap
    /\ builder = IdleBuilder
    /\ IdleValue
    /\ IdleFilter
    /\ IdlePage

\* the value of the filter the builder has just added, handed to the engine
HandedOn(b) == b._filters[Len(b._filters)].value

\* FilterBuilder().where(field).in_(values)
BuildIn ==
    /\ pc = "new"
    /\ \E picked \in ListsOver(1..Len(BuilderValues), MaxValues) :
         \E b \in {in_(builder, column.name, Picked(picked))} :
           builder' = b /\ raw' = HandedOn(b)
    /\ pc' = "input"
    /\ UNCHANGED <<column, dt_parse, coerced, pieces, condition, registryVars, heap, peer,
                   database, filterVars, pageVars>>

\* FilterBuilder().where(field).not_in(values)
BuildNotIn ==
    /\ pc = "new"
    /\ \E picked \in ListsOver(1..Len(BuilderValues), MaxValues) :
         \E b \in {not_in(builder, column.name, Picked(picked))} :
           builder' = b /\ raw' = HandedOn(b)
    /\ pc' = "input"
    /\ UNCHANGED <<column, dt_parse, coerced, pieces, condition, registryVars, heap, peer,
                   database, filterVars, pageVars>>

\* FilterBuilder().where(field).between(low, high)
BuildBetween ==
    /\ pc = "new"
    /\ \E low \in 1..Len(BuilderValues), high \in 1..Len(BuilderValues) :
         \E b \in {between(builder, column.name, BuilderValues[low], BuilderValues[high])} :
           builder' = b /\ raw' = HandedOn(b)
    /\ pc' = "input"
    /\ UNCHANGED <<column, dt_parse, coerced, pieces, condition, registryVars, heap, peer,
                   database, filterVars, pageVars>>

NextBuilder ==
    \/ BuildIn
    \/ BuildNotIn
    \/ BuildBetween
    \/ SplitValues

SpecBuilder == InitBuilder /\ [][NextBuilder]_vars

---------------------------------------------------------------------------
(* FSPConfig (config.py) and the manager's strict_mode and apply_config     *)
(* (fsp.py).                                                               *)

\* max_page = None: no page is too deep (a max_page below 1 is rejected by
\* __post_init__, so 0 is free to stand for it)
NoMaxPage == 0

FSPConfig(max_per_page, min_per_page, strict, allow_deep_pagination, max_page) ==
    [max_per_page |-> max_per_page, min_per_page |-> min_per_page, default_page |-> 1,
     strict_mode |-> strict, allow_deep_pagination |-> allow_deep_pagination,
     max_page |-> max_page]

\* FSPConfig.validate_page: the page to use, or the ValueError of a page
\* beyond max_page when deep pagination is not allowed
validate_page(config, page) ==
    IF page < 1 THEN [raised |-> NoError, value |-> config.default_page]
    ELSE IF ~config.allow_deep_pagination /\ config.max_page # NoMaxPage /\ page > config.max_page
         THEN [raised |-> Uncaught("ValueError"), value |-> page]
         ELSE [raised |-> NoError, value |-> page]

\* FSPConfig.validate_per_page
validate_per_page(config, per_page) ==
    IF per_page < config.min_per_page THEN config.min_per_page
    ELSE IF per_page > config.max_per_page THEN config.max_per_page
    ELSE per_page

\* the manager as apply_config sees it: the flags of its two engines and its
\* pagination
Manager(filter_strict, sort_strict, pg) ==
    [filter_strict |-> filter_strict, sort_strict |-> sort_strict, pagination |-> pg]

\* a setter that reaches the filter engine alone
SetFilterEngineAlone(manager, value) == [manager EXCEPT !.filter_strict = value]

\* FSPManager.strict_mode, the setter
set_strict_mode(manager, value) ==
    [manager EXCEPT !.filter_strict = value, !.sort_strict = value]

\* FSPManager.strict_mode, the getter
get_strict_mode(manager) == manager.filter_strict

\* the tail of apply_config, given what validate_page made of the page
ConfigValidated(manager, config, page) ==
    IF page.raised # NoError THEN [raised |-> page.raised, manager |-> manager]
    ELSE [raised |-> NoError,
          manager |-> [manager EXCEPT !.pagination =
                          PaginationQuery(page.value,
                                          validate_per_page(config, manager.pagination.per_page))]]

\* the part of apply_config after the assignment to strict_mode
ConfigStrictSet(manager, config) ==
    ConfigValidated(manager, config, validate_page(config, manager.pagination.page))

\* FSPManager.apply_config: the exception it raises and the manager afterwards
apply_config(manager, config) ==
    ConfigStrictSet(set_strict_mode(manager, config.strict_mode), config)

---------------------------------------------------------------------------
(* SpecConfig: a manager whose strict_mode is assigned and to which        *)
(* configurations are applied, in any order.                               *)

\* the configurations applied: those __post_init__ accepts
Configs ==
    {config \in {FSPConfig(hi, lo, strict, deep, max_page) :
                    hi \in 1..MaxPerPage, lo \in 1..MaxPerPage, strict \in BOOLEAN,
                    deep \in BOOLEAN, max_page \in {NoMaxPage} \cup 1..(MaxPage - 1)} :
        config.min_per_page <= config.max_per_page}

InitConfig ==
    /\ pc = "new"
    /\ strict_mode \in BOOLEAN
    /\ sort_strict_mode = strict_mode
    /\ _type_cache = <<>>
    /\ filters = <<>>
    /\ or_filters = <<>>
    /\ sorting = NoSorting
    /\ pagination \in {PaginationQuery(p, n) : p \in 1..MaxPage, n \in 1..MaxPerPage}
    /\ request = [url |-> URL("/heroes", <<>>)]
    /\ parse_outcome = ParsedNone
    /\ use_window_function \in {"True", "False", None}
    /\ session = SqliteSession
    /\ base = SelectOf("Hero")
    /\ query = base
    /\ raised = NoError
    /\ result = [data |-> <<>>, total |-> 0]
    /\ response = NoResponse
    /\ dt_parse = "ParserError"
    /\ raw = <<>>
    /\ column = NoColumn
    /\ FILTER_STRATEGIES = DefaultStrategies
    /\ registrations = <<>>
    /\ peer = IdlePeer
    /\ database = IdleDatabase
    /\ heap = EmptyHeap
    /\ builder = IdleBuilder
    /\ IdleValue

\* manager.strict_mode = value
SetStrictMode ==
    /\ \E value \in BOOLEAN :
         \E m \in {set_strict_mode(Manager(strict_mode, sort_strict_mode, pagination), value)} :
           /\ strict_mode' = m.filter_strict
           /\ sort_strict_mode' = m.sort_strict
    /\ raised' = NoError
    /\ pc' = "set"
    /\ UNCHANGED <<builder, valueVars, registryVars, heap, peer, database, _type_cache, filters,
                   or_filters, base, query, pageVars>>

\* manager.apply_config(config)
ApplyConfig ==
    /\ \E config \in Configs :
         \E r \in {apply_config(Manager(strict_mode, sort_strict_mode, pagination), config)} :
           /\ strict_mode' = r.manager.filter_strict
           /\ sort_strict_mode' = r.manager.sort_strict
           /\ pagination' = r.manager.pagination
           /\ raised' = r.raised
           /\ pc' = IF r.raised = NoError THEN "configured" ELSE "config_failed"
    /\ UNCHANGED <<builder, valueVars, registryVars, heap, peer, database, _type_cache, filters,
                   or_filters, base, query, request, parse_outcome, sorting,
                   use_window_function, session, result, response>>

NextConfig == SetStrictMode \/ ApplyConfig

SpecConfig == InitConfig /\ [][NextConfig]_vars

---------------------------------------------------------------------------
(* SpecResponse: build_response called with a total and a page of data, as *)
(* a caller holding the engine does.                                       *)

InitResponse ==
    /\ pc = "paginated"
    /\ pagination \in {PaginationQuery(p, n) : p \in 1..MaxPage, n \in 1..MaxPerPage}
    /\ request \in Requests(pagination)
    /\ parse_outcome = ParsedNone
    /\ sorting \in {NoSorting, SortingQuery("age", "desc")}
    /\ result \in {[data |-> <<>>, total |-> n] : n \in 0..MaxItems}
    /\ use_window_function = None
    /\ session = SqliteSession
    /\ response = NoResponse
    /\ dt_parse = "ParserError"
    /\ raw = <<>>
    /\ column = NoColumn
    /\ FILTER_STRATEGIES = DefaultStrategies
    /\ registrations = <<>>
    /\ peer = IdlePeer
    /\ database = IdleDatabase
    /\ heap = EmptyHeap
    /\ builder = IdleBuilder
    /\ IdleValue
    /\ IdleFilter

NextResponse == BuildResponse

SpecResponse == InitResponse /\ [][NextResponse]_vars

---------------------------------------------------------------------------
(* SpecParse: _parse_search and _parse_filters on the query string of a    *)
(* request.                                                                *)

\* the elements of seq at the positions i.. that mask keeps, in order
RECURSIVE Pick(_, _, _)
Pick(seq, mask, i) ==
    IF i > Len(seq) THEN <<>>
    ELSE (IF mask[i] THEN <<seq[i]>> ELSE <<>>) \o Pick(seq, mask, i + 1)

\* the parameters a filtering request is made of: three indexed filters, the
\* first with a second operator value that is no operator, and two filters
\* in simple form, the second with an operator that is none
FilterParams ==
    <<Param("filters[0][field]", <<"a", "g", "e">>),
      Param("filters[0][operator]", <<"g", "t", "e">>),
      Param("filters[0][operator]", <<"G", "T">>),
      Param("filters[0][value]", <<"1">>),
      Param("filters[1][field]", <<"n", "a", "m", "e">>),
      Param("filters[1][operator]", <<"e", "q">>),
      Param("filters[1][value]", <<"x">>),
      Param("filters[2][field]", <<"i", "d">>),
      Param("filters[2][operator]", <<"i", "n">>),
      Param("filters[2][value]", <<"1", ",", "2">>),
      Param("field", <<"a", "g", "e">>),
      Param("operator", <<"l", "t">>),
      Param("value", <<"3">>),
      Param("field", <<"n", "a", "m", "e">>),
      Param("operator", <<"z", "z">>),
      Param("value", <<>>)>>

\* the requests with some of these parameters
FilterRequests ==
    {[url |-> URL("/heroes", Pick(FilterParams, mask, 1))] :
        mask \in [1..Len(FilterParams) -> BOOLEAN]}

\* the characters of a search_fields value
SearchChars == {"a", "b", ",", " "}

\* the requests with a search term or none and a search_fields value or none
SearchRequests ==
    {[url |-> URL("/heroes", term \o fields)] :
        term \in {<<>>, <<Param("search", <<>>)>>, <<Param("search", <<"f">>)>>,
                  <<Param("search", <<" ">>)>>},
        fields \in {<<>>} \cup {<<Param("search_fields", v)>> : v \in StringsOver(SearchChars)}}

InitParse ==
    /\ pc = "request"
    /\ request \in FilterRequests \cup SearchRequests
    /\ parse_outcome = ParsedNone
    /\ sorting = NoSorting
    /\ pagination = PaginationQuery(1, 1)
    /\ use_window_function = None
    /\ session = SqliteSession
    /\ result = [data |-> <<>>, total |-> 0]
    /\ response = NoResponse
    /\ dt_parse = "ParserError"
    /\ raw = <<>>
    /\ column = NoColumn
    /\ FILTER_STRATEGIES = DefaultStrategies
    /\ registrations = <<>>
    /\ peer = IdlePeer
    /\ database = IdleDatabase
    /\ heap = EmptyHeap
    /\ builder = IdleBuilder
    /\ IdleValue
    /\ IdleFilter

\* or_filters = _parse_search(request)
ParseSearch ==
    /\ pc = "request"
    /\ parse_outcome' = _parse_search(request)
    /\ pc' = "search_parsed"
    /\ UNCHANGED <<builder, valueVars, registryVars, heap, peer, database, filterVars, request, sorting, pagination,
                   use_window_function, session, result, response>>

\* filters = _parse_filters(request)
ParseFilters ==
    /\ pc = "request"
    /\ parse_outcome' = _parse_filters(request)
    /\ pc' = "filters_parsed"
    /\ UNCHANGED <<builder, valueVars, registryVars, heap, peer, database, filterVars, request, sorting, pagination,
                   use_window_function, session, result, response>>

NextParse ==
    \/ ParseSearch
    \/ ParseFilters

SpecParse == InitParse /\ [][NextParse]_vars

---------------------------------------------------------------------------
(* Properties of the helpers and strategies.                               *)

\* whether string s has a value of Python type pytype: what the branch of
\* _coerce_value for that type is meant to find out
Parseable(pytype, s) ==
    CASE pytype = "bool"     -> TRUE
      [] pytype = "int"      -> ParseInt(s).ok \/ (ParseFloat(s).ok /\ ParseFloat(s).kind = "finite")
      [] pytype = "datetime" -> ParsesAsDatetime(s)
      [] pytype = "float"    -> ParseFloat(s).ok
      [] pytype = "enum"     -> s \in EnumValues
      [] OTHER               -> FALSE

\* C3: _coerce_value never raises, whatever the string and the target type,
\* and a string that cannot be parsed as the target type comes back unchanged.
C3_CoerceNeverRaises ==
    pc = "coerced" =>
        /\ coerced.t # "raise"
        /\ ~Parseable(python_type(column), raw) => coerced = Str(raw)

\* the pieces of a raw value that the between strategy works on
BetweenParts == _split_values(raw)

\* C4: the between strategy yields a predicate exactly when the split, trimmed
\* value has two elements and both are non-empty; any other value gives None.
C4_BetweenNeedsTwoNonEmpty ==
    pc = "between" =>
        (condition.k # "None" <=>
            /\ Len(BetweenParts) = 2
            /\ BetweenParts[1] # <<>>
            /\ BetweenParts[2] # <<>>)

PatternOperators == {"like", "ilike", "not_ilike", "starts_with", "ends_with", "contains"}

\* isTextColumn: true only for a textual storage type
IsTextColumn(col) == col.type = "str"

\* C5: a pattern operator matches against CAST(column AS text) when the
\* column's storage type is not textual, and against the bare column when it is.
C5_PatternCastsNonText ==
    pc \in PatternOperators => condition.cast = ~IsTextColumn(column)

---------------------------------------------------------------------------
(* Properties of FilterEngine.apply_filters and of the OR groups.          *)

\* the field of a filter names neither a stored column of the query nor a
\* computed expression of its entity
Unresolved(f) ==
    /\ f.field \notin Keys(selected_columns(base))
    /\ \/ base.entity = None
       \/ HeroAttribute(f.field).kind \notin {"column", "hybrid"}

\* the position of the first filter of the request with an unresolved field
FirstUnresolved ==
    CHOOSE i \in 1..Len(filters) :
        Unresolved(filters[i]) /\ \A j \in 1..(i - 1) : ~Unresolved(filters[j])

\* apply_filters has just returned or raised
AfterApplyFilters == pc \in {"filtered", "failed"}

\* what the caller of apply_filters sees for a filter list on the base query
Outcome(strict, fs) ==
    [raised |-> apply_filters(strict, <<>>, base, selected_columns(base), fs).raised,
     query  |-> apply_filters(strict, <<>>, base, selected_columns(base), fs).query]

\* C8: in strict mode apply_filters on a list with an unresolved field raises
\* a 400 naming the first such field and listing the stored columns sorted;
\* the query carries no predicate and no filter after that one is processed
C8_StrictFailsAtFirstUnresolved ==
    (AfterApplyFilters /\ strict_mode /\ \E i \in 1..Len(filters) : Unresolved(filters[i])) =>
        /\ raised = [exc |-> "HTTPException", status |-> 400,
                     field |-> filters[FirstUnresolved].field,
                     available |-> <<"active", "age", "id", "name">>]
        /\ query = base
        /\ DOMAIN _type_cache \subseteq {filters[j].field : j \in 1..(FirstUnresolved - 1)}

\* the filters of a list whose field resolves
ResolvedOnly(fs) == SelectSeq(fs, LAMBDA f : ~Unresolved(f))

\* C9: in lenient mode apply_filters gives what it gives for the list
\* without its unresolved filters, never raises the unknown-field error, and
\* for a list of unresolved filters only returns the caller's query, which
\* selects every row
C9_LenientDropsUnresolved ==
    (AfterApplyFilters /\ ~strict_mode) =>
        /\ [raised |-> raised, query |-> query] = Outcome(FALSE, ResolvedOnly(filters))
        /\ raised.exc # "HTTPException"
        /\ ResolvedOnly(filters) = <<>> =>
               raised = NoError /\ query = base /\ Rows(query) = HeroRows

C9_Witness ==
    /\ pc = "filtered"
    /\ ~strict_mode
    /\ Len(filters) = 2
    /\ Unresolved(filters[1])
    /\ ~Unresolved(filters[2])
    /\ Len(query.where) = 1
    /\ Len(Rows(query)) < Len(HeroRows)

\* the field of a filter resolves and its strategy returns None
YieldsNone(f) ==
    /\ ~Unresolved(f)
    /\ build_filter_condition(resolve_field(base, selected_columns(base), f.field), f,
           python_type(resolve_field(base, selected_columns(base), f.field))).k = NoPredicate.k

WithoutNone(fs) == SelectSeq(fs, LAMBDA f : ~YieldsNone(f))

\* C10: in either mode apply_filters gives what it gives for the list without
\* the filters whose strategy returns None, and a list of such filters only
\* raises nothing and returns the caller's query
C10_NoPredicateDropped ==
    AfterApplyFilters =>
        /\ [raised |-> raised, query |-> query] = Outcome(strict_mode, WithoutNone(filters))
        /\ \A i \in 1..Len(query.where) : query.where[i].k # NoPredicate.k
        /\ (\A i \in 1..Len(filters) : YieldsNone(filters[i])) =>
               raised = NoError /\ query = base

C10_Witness ==
    /\ pc = "filtered"
    /\ strict_mode
    /\ Len(filters) = 2
    /\ YieldsNone(filters[1])
    /\ ~YieldsNone(filters[2])
    /\ Len(query.where) = 1

\* the predicates a group builds
GroupPredicates(g) ==
    FilterLoop(strict_mode, base, selected_columns(base), g.filters, LoopStart(<<>>)).conditions

\* a row passes a group that built predicates iff it satisfies one of them
PassesGroup(g, row) ==
    GroupPredicates(g) = <<>>
        \/ \E i \in 1..Len(GroupPredicates(g)) : Eval(GroupPredicates(g)[i], row)

---------------------------------------------------------------------------
(* Properties of the pagination engine and of the response.                *)

\* what the two-query path returns for the query of the state
TwoQueryPair == [data |-> paginate(query, pagination), total |-> count_total(query)]

\* C1: whichever path paginate_with_count took, the pair it returned is the
\* pair of the windowed single query and the pair of count_total followed by
\* paginate on the same rows
C1_WindowedEqualsTwoQuery ==
    pc = "paginated" =>
        /\ result = _paginate_with_window(query, pagination)
        /\ result = TwoQueryPair

\* the requested page lies beyond the last page of the matching rows
BeyondLastPage ==
    pagination.page > Max(1, Ceil(count_total(query), pagination.per_page))

\* C2: for a page beyond the last one the response has no data, the requested
\* page as current_page, the number of matching rows as total_items and
\* max(1, ceil(N / per_page)) as total_pages, on either path
C2_PageNotClamped ==
    (pc = "built" /\ BeyondLastPage) =>
        /\ response.data = <<>>
        /\ response.meta.pagination.current_page = pagination.page
        /\ response.meta.pagination.total_items = count_total(query)
        /\ response.meta.pagination.total_pages =
               Max(1, Ceil(count_total(query), pagination.per_page))

\* C7: a response built by build_response or by generate_response carries in
\* its meta the filters, the OR groups and the sort of the request, and
\* generate_response does build one when no stage rejects the request
C7_MetaEchoesRequest ==
    /\ pc \in {"built", "responded"} =>
           /\ response.meta.filters = filters
           /\ response.meta.or_filters = or_filters
           /\ response.meta.sort = sorting
    /\ pc = "not_responded" => raised.exc = "HTTPException"

---------------------------------------------------------------------------
(* Properties of build_response.                                           *)

C12_ZeroItemsNoNextNoPrev ==
    (pc = "built" /\ result.total = 0) =>
        /\ response.meta.pagination.total_pages = 1
        /\ response.links.next = NoUrl
        /\ response.links.prev = NoUrl

\* C12 amended: with total_items = 0 the response has total_pages = 1 and no
\* next link, whatever page and per_page were requested; it has no prev link
\* exactly when page 1 was requested
C12_ZeroItemsOnePageNoNext ==
    (pc = "built" /\ result.total = 0) =>
        /\ response.meta.pagination.total_pages = 1
        /\ response.links.next = NoUrl
        /\ response.links.prev = NoUrl <=> pagination.page = 1

C12_Witness ==
    /\ pc = "built"
    /\ result.total = 0
    /\ pagination.page = 2
    /\ response.meta.pagination.total_pages = 1
    /\ response.links.next = NoUrl
    /\ response.links.prev # NoUrl

\* the values the query string of url gives to key, in order
ParamValues(url, key) ==
    [i \in 1..Len(SelectSeq(url.query, LAMBDA prm : prm.k = key)) |->
        SelectSeq(url.query, LAMBDA prm : prm.k = key)[i].v]

\* link is the URL of the request with page and per_page set to these
\* values once each, and with nothing else changed: the path and the other
\* parameters, values and order, are those of the request
Targets(link, url, page, per_page) ==
    /\ link # NoUrl
    /\ link.path = url.path
    /\ WithoutKeys(link.query, {"page", "per_page"})
           = WithoutKeys(url.query, {"page", "per_page"})
    /\ Len(ParamValues(link, "page")) = 1
    /\ Len(ParamValues(link, "per_page")) = 1
    /\ AllDigits(ParamValues(link, "page")[1])
    /\ AllDigits(ParamValues(link, "per_page")[1])
    /\ ToNat(ParamValues(link, "page")[1]) = page
    /\ ToNat(ParamValues(link, "per_page")[1]) = per_page

\* C13: self targets the current page, first page 1 and last total_pages;
\* next is present exactly when current_page < total_pages and then targets
\* current_page + 1; prev is present exactly when current_page > 1 and then
\* targets current_page - 1; every link carries the per_page of the request
\* and differs from the request's URL in page and per_page only
C13_LinksTargetPages ==
    pc = "built" =>
        /\ Targets(response.links.self, request.url, pagination.page, pagination.per_page)
        /\ Targets(response.links.first, request.url, 1, pagination.per_page)
        /\ Targets(response.links.last, request.url,
                   response.meta.pagination.total_pages, pagination.per_page)
        /\ response.links.next # NoUrl
               <=> pagination.page < response.meta.pagination.total_pages
        /\ response.links.next # NoUrl =>
               Targets(response.links.next, request.url,
                       pagination.page + 1, pagination.per_page)
        /\ response.links.prev # NoUrl <=> pagination.page > 1
        /\ response.links.prev # NoUrl =>
               Targets(response.links.prev, request.url,
                       pagination.page - 1, pagination.per_page)

C13_Witness ==
    /\ pc = "built"
    /\ pagination.page = 2
    /\ response.meta.pagination.total_pages = 3
    /\ Len(WithoutKeys(request.url.query, {"page", "per_page"})) = 2
    /\ response.links.next # NoUrl
    /\ response.links.prev # NoUrl
    /\ response.links.next # response.links.prev
    /\ response.links.self # request.url

---------------------------------------------------------------------------
(* Properties of paginate and count_total.                                 *)

\* the number of pages of per_page rows that n rows fill
PagesOf(n, per_page) ==
    CHOOSE k \in 0..n : k * per_page >= n /\ (k = 0 \/ (k - 1) * per_page < n)

\* the rows of pages 1..k of query q, page after page
RECURSIVE PagesUpTo(_, _, _)
PagesUpTo(q, per_page, k) ==
    IF k = 0 THEN <<>>
    ELSE PagesUpTo(q, per_page, k - 1) \o paginate(q, PaginationQuery(k, per_page))

\* paginate_with_count took the two-query path
TwoQueryPath == ~_should_use_window_function(use_window_function, session)

\* the rows of rows from position offset + 1 on, per_page of them at most
RowsFrom(rows, offset, per_page) ==
    [i \in 1..Max(0, Min(per_page, Len(rows) - offset)) |-> rows[offset + i]]

\* C14: over the N rows of the ordered query, paginate returns for page k the
\* rows from offset (k - 1) * per_page on, per_page of them at most, and
\* count_total returns N; pages 1..ceil(N / per_page) laid end to end are the
\* N rows, each once, so they are pairwise disjoint and cover them all
C14_PagesPartitionRows ==
    (pc = "paginated" /\ TwoQueryPath) =>
        /\ result.data = RowsFrom(Execute(query), (pagination.page - 1) * pagination.per_page,
                                  pagination.per_page)
        /\ result.total = Len(Execute(query))
        /\ PagesUpTo(query, pagination.per_page,
                     PagesOf(Len(Execute(query)), pagination.per_page)) = Execute(query)
        /\ \A i, j \in 1..Len(Execute(query)) :
               Execute(query)[i] = Execute(query)[j] => i = j

C14_Witness ==
    /\ pc = "paginated"
    /\ TwoQueryPath
    /\ Len(Execute(query)) = 3
    /\ sorting = SortingQuery("age", "desc")
    /\ pagination = PaginationQuery(2, 2)
    /\ Len(result.data) = 1
    /\ result.data[1] = Execute(query)[3]
    /\ result.total = 3

---------------------------------------------------------------------------
(* Properties of the parsers.                                              *)

\* the value the request gives to key: the last one when it gives several
LastValue(key) == ParamValues(request.url, key)[Len(ParamValues(request.url, key))]

HasParam(key) == ParamValues(request.url, key) # <<>>

\* the request carries a search term that is not empty
HasSearchTerm == HasParam("search") /\ LastValue("search") # <<>>

\* the names in s, read character by character from position i on: cur is
\* the piece read so far, names the names of the pieces before it; a piece
\* ends at a comma and names a field unless it is blank
RECURSIVE NamesFrom(_, _, _, _)
NamesFrom(s, i, cur, names) ==
    IF i > Len(s) THEN (IF Strip(cur) = <<>> THEN names ELSE Append(names, Strip(cur)))
    ELSE IF s[i] = ","
    THEN NamesFrom(s, i + 1, <<>>, IF Strip(cur) = <<>> THEN names ELSE Append(names, Strip(cur)))
    ELSE NamesFrom(s, i + 1, Append(cur, s[i]), names)

\* the fields the request names in search_fields
NamedFields ==
    IF HasParam("search_fields") THEN NamesFrom(LastValue("search_fields"), 1, <<>>, <<>>)
    ELSE <<>>

\* the parser rejected the request with a 400
Rejected400 ==
    /\ parse_outcome.raised.exc = "HTTPException"
    /\ parse_outcome.raised.status = 400
    /\ parse_outcome.none

\* the parser returned None
ReturnedNone == parse_outcome.raised.exc = None /\ parse_outcome.none

\* the parser returned a list
ReturnedList == parse_outcome.raised.exc = None /\ ~parse_outcome.none

\* C15: with a non-empty search term and at least one non-blank field named in
\* search_fields, _parse_search returns exactly one OrFilterGroup with one
\* contains filter per named field, in order, each with the term as value;
\* with a non-empty term and search_fields absent, empty or all blank it
\* raises a 400; with no term, or an empty one, it returns None
C15_SearchIsOneContainsGroup ==
    pc = "search_parsed" =>
        /\ (HasSearchTerm /\ NamedFields # <<>>) =>
               /\ ReturnedList
               /\ Len(parse_outcome.value) = 1
               /\ Len(parse_outcome.value[1].filters) = Len(NamedFields)
               /\ \A i \in 1..Len(NamedFields) :
                      parse_outcome.value[1].filters[i]
                          = Filter(Text(NamedFields[i]), "contains", LastValue("search"))
        /\ (HasSearchTerm /\ NamedFields = <<>>) => Rejected400
        /\ ~HasSearchTerm => ReturnedNone

C15_Witness ==
    /\ pc = "search_parsed"
    /\ HasSearchTerm
    /\ ReturnedList
    /\ Len(parse_outcome.value) = 1
    /\ Len(parse_outcome.value[1].filters) = 2
    /\ parse_outcome.value[1].filters[1].field = "b"
    /\ parse_outcome.value[1].filters[2].field = "a"

\* the request has the part of the indexed filter i
HasIndexed(i, part) == HasParam(IndexedKey(i, part))

\* the first index for which the request has no filters[i][field]
ScanEnd ==
    CHOOSE n \in 0..Len(request.url.query) :
        /\ ~HasIndexed(n, "field")
        /\ \A i \in 0..(n - 1) : HasIndexed(i, "field")

\* the indexed filter i has a field but lacks an operator or a value
Incomplete(i) == ~HasIndexed(i, "operator") \/ ~HasIndexed(i, "value")

\* token is the value of no member of FilterOperator
UnknownOperator(token) == \A op \in FilterOperator : Text(token) # op

\* the indexed filter i cannot be parsed
BadIndexed(i) ==
    Incomplete(i) \/ UnknownOperator(LastValue(IndexedKey(i, "operator")))

\* the simple form: the field, operator and value parameters, each in order
SimpleFields == ParamValues(request.url, "field")

SimpleOperators == ParamValues(request.url, "operator")

SimpleValues == ParamValues(request.url, "value")

SimpleMismatch ==
    Len(SimpleFields) # Len(SimpleOperators) \/ Len(SimpleOperators) # Len(SimpleValues)

\* the parser raised a 400 whose detail is of this kind and names this index
Rejected400At(detail, index) ==
    /\ Rejected400
    /\ parse_outcome.raised.detail = detail
    /\ parse_outcome.raised.index = index

\* C16: _parse_filters scans filters[0], filters[1], .. and stops at the first
\* index without a field; the first scanned index that lacks an operator or
\* a value, or whose operator is unknown, is rejected with a 400 naming that
\* index; with one indexed filter or more the result is the scanned filters
\* and the simple form is ignored; with none the simple form is rejected with
\* a 400 when its three counts differ, with a 400 naming the position of its
\* first unknown operator, and is otherwise its field, operator and value
\* parameters zipped position by position, None when there are none
C16_IndexedThenSimple ==
    pc = "filters_parsed" =>
        IF \E i \in 0..(ScanEnd - 1) : BadIndexed(i)
        THEN \E i \in 0..(ScanEnd - 1) :
                 /\ BadIndexed(i)
                 /\ \A j \in 0..(i - 1) : ~BadIndexed(j)
                 /\ Rejected400At(IF Incomplete(i) THEN "Incomplete filter"
                                  ELSE "Invalid operator", i)
        ELSE IF ScanEnd > 0
        THEN /\ ReturnedList
             /\ Len(parse_outcome.value) = ScanEnd
             /\ \A i \in 0..(ScanEnd - 1) :
                    parse_outcome.value[i + 1]
                        = Filter(Text(LastValue(IndexedKey(i, "field"))),
                                 Text(LastValue(IndexedKey(i, "operator"))),
                                 LastValue(IndexedKey(i, "value")))
        ELSE IF SimpleMismatch
        THEN Rejected400At("Mismatched filter parameters in array format", -1)
        ELSE IF \E i \in 1..Len(SimpleOperators) : UnknownOperator(SimpleOperators[i])
        THEN \E i \in 1..Len(SimpleOperators) :
                 /\ UnknownOperator(SimpleOperators[i])
                 /\ \A j \in 1..(i - 1) : ~UnknownOperator(SimpleOperators[j])
                 /\ Rejected400At("Invalid operator", i - 1)
        ELSE IF SimpleFields = <<>> THEN ReturnedNone
        ELSE /\ ReturnedList
             /\ Len(parse_outcome.value) = Len(SimpleFields)
             /\ \A i \in 1..Len(SimpleFields) :
                    parse_outcome.value[i]
                        = Filter(Text(SimpleFields[i]), Text(SimpleOperators[i]), SimpleValues[i])

\* two indexed filters were found and the simple form, whose counts differ
\* and whose operator is unknown, was ignored; filters[2] would have been
\* incomplete
C16_Witness ==
    /\ pc = "filters_parsed"
    /\ ScanEnd = 2
    /\ HasIndexed(2, "operator")
    /\ SimpleMismatch
    /\ SimpleOperators = << <<"z", "z">> >>
    /\ ReturnedList
    /\ Len(parse_outcome.value) = 2
    /\ parse_outcome.value[2] = Filter("name", "eq", <<"x">>)

---------------------------------------------------------------------------
(* Properties of the sort engine.                                          *)

\* the request asks for no sort: sorting is None or its key is empty
NoSortKey == sorting = NoSorting \/ sorting.sort_by = ""

\* the fields of Hero that are stored columns, and those that are computed
\* SQL expressions
StoredFields == {"id", "name", "age", "active"}

ComputedFields == {"full_name"}

\* rows are in the order of field, ascending or descending
OrderedOn(rows, field, descending) ==
    \A i, j \in 1..Len(rows) :
        i < j => IF descending THEN ~ValueLess(rows[i][field], rows[j][field])
                 ELSE ~ValueLess(rows[j][field], rows[i][field])

\* the step left the query as it was and raised nothing
SortLeavesQuery == query' = query /\ raised' = NoError

\* C17: apply_sort returns the query unchanged for no sorting or an empty
\* key; for a key that is a stored column or a computed expression it adds
\* that column as the ORDER BY key, descending iff the order is DESC, so that
\* the same rows come back in that order; for any other key it raises a 400
\* naming the field in strict mode and returns the query unchanged in
\* lenient mode
C17_SortPolicy ==
    [][ApplySort =>
          IF NoSortKey THEN SortLeavesQuery
          ELSE IF sorting.sort_by \in StoredFields \cup ComputedFields
          THEN /\ raised' = NoError
               /\ query'.where = query.where
               /\ query'.entity = query.entity
               /\ Len(query'.order_by) = Len(query.order_by) + 1
               /\ query'.order_by[Len(query'.order_by)].col.name = sorting.sort_by
               /\ query'.order_by[Len(query'.order_by)].desc = (sorting.order = "desc")
               /\ OrderedOn(Execute(query'), sorting.sort_by, sorting.order = "desc")
               /\ Len(Execute(query')) = Len(Execute(query))
               /\ \A i \in 1..Len(Execute(query)) :
                      \E j \in 1..Len(Execute(query')) : Execute(query')[j] = Execute(query)[i]
          ELSE IF strict_mode
          THEN /\ raised'.exc = "HTTPException"
               /\ raised'.status = 400
               /\ raised'.field = sorting.sort_by
               /\ query' = query
          ELSE SortLeavesQuery]_vars

\* a sort on a computed expression, descending, over all three rows
C17_Witness ==
    /\ pc = "sorted"
    /\ sorting = SortingQuery("full_name", "desc")
    /\ Len(query.order_by) = 1
    /\ query.order_by[1].desc
    /\ Len(Execute(query)) = 3
    /\ Execute(query)[1].id = IntV(1)
    /\ Execute(query)[3].id = IntV(3)

---------------------------------------------------------------------------
(* Properties of the choice between the window query and the two queries.  *)

\* the dialect name of the session: that of its bind, else that of the bind
\* of the session it wraps; None when there is no bind or its dialect
\* cannot be read
DialectName ==
    IF session.bind = Broken THEN None
    ELSE IF session.bind # None THEN session.bind
    ELSE IF session.sync_session = NoSyncSession THEN None
    ELSE IF session.sync_session.bind = Broken THEN None
    ELSE session.sync_session.bind

\* the path C18 gives to the request
WindowedExpected ==
    \/ use_window_function = "True"
    \/ use_window_function = None /\ DialectName = "postgresql"

\* the two paths return different pairs for the query and page of the state
PathsDiffer == _paginate_with_window(query, pagination) # TwoQueryPair

\* C18: paginate_with_count returns what the window query returns exactly
\* when use_window_function is True, or is None with a session whose
\* dialect name is "postgresql"; otherwise, so for an explicit False and for
\* a session without a readable dialect, it returns what the two queries
\* return
C18_WindowedIffForcedOrPostgres ==
    pc = "paginated" =>
        result = IF WindowedExpected THEN _paginate_with_window(query, pagination)
                 ELSE TwoQueryPair

\* auto-detection through the session an async session wraps selected the
\* window query, on a page where the two paths differ
C18_Witness ==
    /\ pc = "paginated"
    /\ use_window_function = None
    /\ session = Session(None, SyncSession("postgresql"))
    /\ PathsDiffer
    /\ result = _paginate_with_window(query, pagination)

---------------------------------------------------------------------------
(* Properties of the strategy registry.                                    *)

\* the functions that are strategies: the built-in ones and the callers'
StrategyFunctions == {DefaultStrategies[op] : op \in FilterOperator} \cup RegisteredStrategies

\* C19: whatever calls of register_strategy were made with operator tags,
\* the registry's keys are the 18 operator tags, no more and no fewer, and
\* each tag maps to one strategy function
C19_RegistryCoversTags ==
    /\ DOMAIN FILTER_STRATEGIES = FilterOperator
    /\ Cardinality(DOMAIN FILTER_STRATEGIES) = Cardinality(FilterOperator)
    /\ Cardinality(FilterOperator) = 18
    /\ \A op \in FilterOperator : FILTER_STRATEGIES[op] \in StrategyFunctions

\* eq was registered twice, with two strategies, and then dispatched on
C19_Witness ==
    /\ pc = "eq"
    /\ Len(registrations) = 2
    /\ registrations[1] = [operator |-> "eq", strategy |-> "_strategy_ne"]
    /\ registrations[2] = [operator |-> "eq", strategy |-> "custom_eq"]
    /\ FILTER_STRATEGIES["eq"] = "custom_eq"

\* the positions of the calls of register_strategy made for op
RegistrationsFor(op) == {i \in 1..Len(registrations) : registrations[i].operator = op}

\* the strategy last registered for op by a call, else the built-in one
LastRegistered(op) ==
    IF RegistrationsFor(op) = {} THEN DefaultStrategies[op]
    ELSE registrations[CHOOSE i \in RegistrationsFor(op) :
                           \A j \in RegistrationsFor(op) : j <= i].strategy

\* two predicates are the same one
SamePredicate(a, b) == a.k = b.k /\ a = b

\* C20: a call register_strategy(op, fn) makes fn the strategy of op and
\* leaves the strategy of every other tag as it was; a build_filter_condition
\* for op calls the strategy last registered for op
C20_RegisterReplacesOnlyOp ==
    [][/\ Len(registrations') > Len(registrations) =>
              /\ FILTER_STRATEGIES'[registrations'[Len(registrations')].operator]
                     = registrations'[Len(registrations')].strategy
              /\ DOMAIN FILTER_STRATEGIES' = DOMAIN FILTER_STRATEGIES
              /\ \A op \in DOMAIN FILTER_STRATEGIES :
                     op # registrations'[Len(registrations')].operator
                         => FILTER_STRATEGIES'[op] = FILTER_STRATEGIES[op]
       /\ (pc = "input" /\ pc' \in FilterOperator) =>
              \E pytype \in {None, python_type(column)} :
                  SamePredicate(condition',
                                CallStrategy(LastRegistered(pc'), column, raw, pytype))]_vars

\* after eq was given the caller's strategy and ne was left alone, a build
\* for eq compares the column with the raw string
C20_Witness ==
    /\ pc = "eq"
    /\ registrations = <<[operator |-> "eq", strategy |-> "custom_eq"]>>
    /\ FILTER_STRATEGIES["ne"] = "_strategy_ne"
    /\ condition.k = "="
    /\ condition.args = <<Str(<<"1">>)>>

---------------------------------------------------------------------------
(* Properties of requests served at the same time.                         *)

\* apply_filters of a request served alone: the registry is the one the
\* module defines
RECURSIVE AloneConditions(_, _)
AloneConditions(fs, columns_map) ==
    IF fs = <<>> THEN <<>>
    ELSE <<CallStrategy(DefaultStrategies[Head(fs).operator],
                        MapGet(columns_map, Head(fs).field), Head(fs).value,
                        python_type(MapGet(columns_map, Head(fs).field)))>>
             \o AloneConditions(Tail(fs), columns_map)

\* the query of the request after its AND-filters, served alone
AloneFiltered ==
    IF filters = <<>> THEN base
    ELSE Where(base, AloneConditions(filters, selected_columns(base)))

\* C21: whatever the second request does in between, register_strategy
\* included, the first request's AND-filters attach the predicates they
\* attach when it is served alone, and its rows and total are those of that
\* query
C21_RequestsDoNotInterfere ==
    /\ pc = "filtered" => query.where = AloneFiltered.where
    /\ pc = "paginated" =>
           /\ Len(query.where) >= Len(AloneFiltered.where)
           /\ SubSeq(query.where, 1, Len(AloneFiltered.where)) = AloneFiltered.where
           /\ result.total <= count_total(AloneFiltered)
           /\ (or_filters = <<>> => result.total = count_total(AloneFiltered))

---------------------------------------------------------------------------
(* Properties of the order of the steps of generate_response.              *)

\* the filters of the request that name a field of the entity
ResolvedFilters == SelectSeq(filters, LAMBDA f : f.field \in StoredFields \cup ComputedFields)

\* the statement runs on a query that carries the request's AND-filters, then
\* its OR groups, and its sort
OnComposedQuery(statement) ==
    /\ Len(statement.query.where) = Len(ResolvedFilters) + Len(or_filters)
    /\ \A i \in 1..Len(ResolvedFilters) :
           statement.query.where[i].col.name = ResolvedFilters[i].field
    /\ \A i \in 1..Len(or_filters) :
           statement.query.where[Len(ResolvedFilters) + i].k = "OR"
    /\ (~NoSortKey /\ sorting.sort_by \in StoredFields) =>
           /\ Len(statement.query.order_by) = 1
           /\ statement.query.order_by[1].col.name = sorting.sort_by

\* the request names a field the entity does not have, in a filter or as sort
\* key
NamesUnknownField ==
    \/ \E i \in 1..Len(filters) : filters[i].field \notin StoredFields \cup ComputedFields
    \/ ~NoSortKey /\ sorting.sort_by \notin StoredFields \cup ComputedFields

\* C22: generate_response applies the AND-filters, the OR groups and the sort
\* before it executes anything and builds the response last: every statement
\* executed is on the query that carries all three, no statement has been
\* executed while a step before the page is pending or has raised, a strict
\* engine given an unknown field ends in the 400 with no statement executed,
\* and a response exists only after the statements
C22_StepsInOrder ==
    /\ \A i \in 1..Len(database.statements) : OnComposedQuery(database.statements[i])
    /\ pc \in {"new", "filtered", "or_filtered", "sorted", "failed", "or_failed", "sort_failed"}
           => database.statements = <<>> /\ response = NoResponse
    /\ (strict_mode /\ NamesUnknownField /\ pc # "new") =>
           /\ database.statements = <<>>
           /\ pc \in {"failed", "sort_failed", "filtered", "or_filtered", "not_responded"}
           /\ pc \in {"failed", "sort_failed", "not_responded"} =>
                  raised.exc = "HTTPException" /\ raised.status = 400
    /\ pc \in {"paginated", "responded"} => database.statements # <<>>
    /\ response # NoResponse => database.statements # <<>>

C22_Witness ==
    /\ pc = "paginated"
    /\ filters # <<>>
    /\ or_filters # <<>>
    /\ ~NoSortKey
    /\ Len(database.statements) = 2
    /\ database.statements[2].query = query
    /\ Len(query.order_by) = 1

---------------------------------------------------------------------------
(* Properties of field resolution.                                         *)

\* the name the request's filter and sort carry
ResolvedName == filters[1].field

\* what the name is to resolve to: the stored column of that name; for a name
\* that is no stored column, the entity's computed expression if the query
\* has an entity; else None
ExpectedColumn ==
    IF ResolvedName \in StoredFields THEN MapGet(HeroColumns, ResolvedName)
    ELSE IF ResolvedName \in ComputedFields /\ base.entity # None
         THEN Column(ResolvedName, "str", TRUE)
         ELSE NoColumn

\* C23: a field resolves to the stored column of the map when there is one,
\* whatever the entity; to the entity's computed expression only when it is
\* no stored column; to None when neither exists or the attribute is no SQL
\* expression or its access raises.  Filters and sort see that resolution,
\* and nothing but the strict mode's 400 is ever raised.
C23_StoredThenComputedElseNone ==
    /\ pc = "resolved" => column = ExpectedColumn
    /\ pc \in {"filtered", "or_filtered", "sorted", "sort_failed"} =>
           IF ExpectedColumn = NoColumn THEN query.where = <<>> /\ ~strict_mode
           ELSE Len(query.where) = 1 /\ query.where[1].col = ExpectedColumn
    /\ pc = "sorted" =>
           IF ExpectedColumn = NoColumn THEN query.order_by = <<>> /\ ~strict_mode
           ELSE Len(query.order_by) = 1 /\ query.order_by[1].col = ExpectedColumn
    /\ pc \in {"failed", "sort_failed"} =>
           /\ strict_mode
           /\ ExpectedColumn = NoColumn
           /\ raised = UnknownField(ResolvedName, HeroColumns)
    /\ pc \notin {"failed", "sort_failed"} => raised = NoError

C23_Witness ==
    /\ pc = "sorted"
    /\ ResolvedName = "full_name"
    /\ Len(query.where) = 1
    /\ query.where[1].col.name = "full_name"
    /\ query.order_by[1].col.name = "full_name"

---------------------------------------------------------------------------
(* Properties of the conjunction apply_filters attaches.                   *)

\* the predicate of filter f on its own, under the strategies the module
\* defines
PredicateOf(f) ==
    CallStrategy(DefaultStrategies[f.operator],
                 resolve_field(base, selected_columns(base), f.field), f.value,
                 python_type(resolve_field(base, selected_columns(base), f.field)))

\* every filter of the request resolves and yields a predicate
AllYieldPredicate ==
    \A i \in 1..Len(filters) :
        /\ resolve_field(base, selected_columns(base), filters[i].field) # NoColumn
        /\ PredicateOf(filters[i]).k \notin {"None", "raise"}

\* C24: when every filter resolves and yields a predicate, apply_filters
\* attaches these predicates, one per filter and in the filters' order, and a
\* row is in the result iff it satisfies every one of them; for an empty
\* list it returns the query it was given
C24_AttachesConjunction ==
    pc = "filtered" =>
        /\ filters = <<>> => query = base
        /\ AllYieldPredicate =>
               /\ raised = NoError
               /\ Len(query.where) = Len(filters)
               /\ \A i \in 1..Len(filters) :
                      SamePredicate(query.where[i], PredicateOf(filters[i]))
               /\ \A r \in 1..Len(HeroRows) :
                      (\E j \in 1..Len(Rows(query)) : Rows(query)[j] = HeroRows[r])
                          <=> \A i \in 1..Len(filters) :
                                  Eval(PredicateOf(filters[i]), HeroRows[r])

C24_Witness ==
    /\ pc = "filtered"
    /\ Len(filters) = 2
    /\ filters[1] # filters[2]
    /\ AllYieldPredicate
    /\ Len(query.where) = 2
    /\ Len(Rows(query)) = 1

---------------------------------------------------------------------------
(* Properties of _split_values.                                            *)

\* the positions of the commas of raw, in increasing order, between the
\* position before its first character and the one after its last
Commas == {i \in 1..Len(raw) : raw[i] = ","}

\* the position of the n-th comma of raw; 0 for n = 0, one past the end for
\* n beyond the last comma
CommaAt(n) ==
    IF n = 0 THEN 0
    ELSE IF n > Cardinality(Commas) THEN Len(raw) + 1
    ELSE CHOOSE i \in Commas : Cardinality({j \in Commas : j < i}) = n - 1

\* the text between the (n-1)-th and the n-th comma of raw
Segment(n) == SubSeq(raw, CommaAt(n - 1) + 1, CommaAt(n) - 1)

\* piece is segment without the whitespace at its two ends
TrimmedFrom(piece, segment) ==
    /\ piece = <<>> \/ (piece[1] \notin Whitespace /\ piece[Len(piece)] \notin Whitespace)
    /\ \E a, b \in 0..Len(segment) :
           /\ a + b <= Len(segment)
           /\ \A i \in 1..a : segment[i] \in Whitespace
           /\ \A i \in (Len(segment) - b + 1)..Len(segment) : segment[i] \in Whitespace
           /\ piece = SubSeq(segment, a + 1, Len(segment) - b)

\* C25: _split_values(raw) has one piece per comma plus one, the n-th piece
\* being the text between the (n-1)-th and the n-th comma with the whitespace
\* at its ends removed; empty pieces are kept, so the empty string gives one
\* empty piece
C25_SplitKeepsEveryPiece ==
    pc = "split" =>
        /\ Len(pieces) = Cardinality(Commas) + 1
        /\ \A n \in 1..Len(pieces) : TrimmedFrom(pieces[n], Segment(n))
        /\ raw = <<>> => pieces = << <<>> >>

C25_Witness ==
    /\ pc = "split"
    /\ raw = <<" ", ",", ",">>
    /\ pieces = << <<>>, <<>>, <<>> >>

---------------------------------------------------------------------------
(* Properties of the column-type memo.                                     *)

\* what get_column_type(column) has just returned: self._type_cache[id(column)]
ReturnedType == _type_cache[Id(column)]

\* the memo keeps what it holds: no entry is changed or removed by a step
MemoKept ==
    \A k \in DOMAIN _type_cache :
        k \in DOMAIN _type_cache' /\ _type_cache'[k] = _type_cache[k]

\* C26: the first get_column_type(column) stores the column's declared Python
\* type, None when it has none; every call returns the type of the column it
\* was passed
C26_MemoReturnsOwnType ==
    pc = "typed" => ReturnedType = python_type(column)

\* no entry of the memo is ever changed or removed, and a call on one engine
\* leaves the memo of every other engine as it was
MemoEntriesStay ==
    [][/\ MemoKept
       /\ peer'._type_cache # peer._type_cache => _type_cache' = _type_cache
       /\ _type_cache' # _type_cache => peer'._type_cache = peer._type_cache]_vars

---------------------------------------------------------------------------
(* Properties of a page and its count under concurrent writes.             *)

\* C27: the page paginate_with_count returns never has more rows than the
\* total returned with it, and has rows only when that total is positive,
\* whatever other sessions insert or delete between the engine's statements
C27_PageWithinTotal ==
    pc = "paginated" =>
        /\ Len(result.data) <= result.total
        /\ result.data # <<>> => result.total > 0

---------------------------------------------------------------------------
(* Properties of the manager's configuration.                              *)

\* C28: whatever assignments to strict_mode and calls of apply_config have
\* been made, the filter engine and the sort engine hold the same
\* strict_mode, which is the value the manager's property reports
C28_EnginesAgreeOnStrictMode ==
    /\ strict_mode = sort_strict_mode
    /\ get_strict_mode(Manager(strict_mode, sort_strict_mode, pagination)) = sort_strict_mode

C28_Witness ==
    /\ pc = "config_failed"
    /\ strict_mode
    /\ sort_strict_mode

\* C29: a call of apply_config that raises leaves the manager as it was:
\* the strict_mode of both engines, the page and the per_page
C29_FailedConfigChangesNothing ==
    [][pc' = "config_failed" =>
          /\ strict_mode' = strict_mode
          /\ sort_strict_mode' = sort_strict_mode
          /\ pagination' = pagination]_vars

---------------------------------------------------------------------------
(* Properties of the builder and the engine together.                      *)

\* the string forms of the values given to the builder, in their order
StringForms == [i \in 1..Len(builder.values) |-> _to_str(builder.values[i])]

\* C30: _split_values of the value of a filter built by in_, not_in or
\* between returns the string forms of the values given, as many and in the
\* same order
C30_BuilderRoundTrip ==
    (pc = "split" /\ builder._filters # <<>>) => pieces = StringForms

=============================================================================
